---------------------------- MODULE Spec2Model ----------------------------
(***************************************************************************)
(* WaterKontrol backend (src/index.js): the schedule store written by the  *)
(* /api/dispositivo/horarios handlers, the local-to-UTC normalisation of a *)
(* schedule (toUtc, shiftDays) and the schedule actuation engine           *)
(* (ejecutarHorarios, started by iniciarEjecucionHorarios), the ingestion   *)
(* of telemetry messages (procesarMensajesMqtt) and the offline sweep      *)
(* (marcarOfflineSiNoReportan).                                            *)
(*                                                                         *)
(* Text values of the program are modelled as what they are:               *)
(*   - a time of day "HH:MM" is a sequence of one-character strings;       *)
(*   - dias_semana, a comma separated list, is the sequence of its tokens  *)
(*     (the empty text is the empty sequence);                             *)
(*   - serials and topics are strings.                                     *)
(***************************************************************************)
EXTENDS Integers, Sequences, FiniteSets, TLC

VARIABLES
    registro,          \* table registro: rows [rgt_id, usr_id, serial, topic, estatus, ultima_conexion]
    horarios,          \* table horarios: rows [horario_id, serial, dias_semana, hora_inicio, hora_fin, activo]
    seqHorarioId,      \* the sequence behind horarios.horario_id
    mqttClient,        \* TRUE once mqtt.connect has assigned the client
    horariosInterval,  \* <<>> while null; <<n>> once set, n phases before the setInterval callback fires
    reloj,             \* the wall clock (UTC), in phases since a Sunday 00:00
    ejecuciones,       \* the executions of ejecutarHorarios that are awaiting the store; one that
                       \* has its rows also remembers the table its query read (vista)
    historial,         \* the executions that ran to the end: what each read and published (a set)
    postPendientes,    \* POST /api/dispositivo/horarios handlers between their INSERT and their UPDATE
    escrituras,        \* number of schedule write requests served so far
    respuesta,         \* the request a schedule handler served last and the answer it sent
    normIn,            \* input of the normalisation under study
    normOut,           \* its result
    normBack,          \* the result normalised again with the opposite offset
    sesion,            \* table sesion: rows [ses_id, usuario_id, frb_token]
    registroValor,     \* table registro_valor as committed: <<rgt_id, prt_id>> -> valor where the
                       \* rows are given, the set of rows [vlr_id, rgt_id, prt_id, valor] where
                       \* registrations insert them
    bandeja,           \* the messages the broker has yet to deliver, in the order of delivery
    entregados,        \* number of 'message' events emitted so far
    manejadores,       \* the 'message' handlers that are awaiting the store
    terminados,        \* the handlers that returned: what each did
    confirmados,       \* the transactions of the handlers that committed, in the order of commit
    envios,            \* the admin.messaging().send promises that are not settled
    barrido,           \* the setInterval of marcarOfflineSiNoReportan: whether a run is due,
                       \* and the instant of the last run
    conexiones,        \* the connections of the pool: whether each is idle, whether it has a
                       \* transaction open, and the writes of that transaction
    peticiones,        \* the handlers of the registration model that are awaiting the store
    secuencias         \* the sequences behind registro.rgt_id and registro_valor.vlr_id

vars == <<registro, horarios, seqHorarioId, mqttClient, horariosInterval, reloj,
          ejecuciones, historial, postPendientes, escrituras, respuesta, normIn, normOut,
          normBack,
          sesion, registroValor, bandeja, entregados, manejadores, terminados, confirmados,
          envios, barrido, conexiones, peticiones, secuencias>>

schedVars == <<registro, horarios, seqHorarioId, mqttClient, horariosInterval, reloj,
               ejecuciones, historial, postPendientes, escrituras, respuesta>>

normVars == <<normIn, normOut, normBack>>

regVars == <<conexiones, peticiones, secuencias>>

ingVars == <<sesion, registroValor, bandeja, entregados, manejadores, terminados, confirmados,
             envios, barrido>>

-----------------------------------------------------------------------------
(* Bounds of the model *)

\* clock phases per minute: the resolution at which the model sees time
Fases == 2
\* phases the clock may advance in one run
MaxTranscurrido == 4
\* rows the horarios table may hold
MaxHorarios == 2
\* schedule write requests served in one run
MaxEscrituras == 1
\* days in a day set given to the normalisation under study
MaxDiasNorm == 2
\* connections the pool holds
MaxConexiones == 2
\* handlers started in one run of the registration model
MaxPeticiones == 3

-----------------------------------------------------------------------------
(* JavaScript arithmetic and text helpers *)

\* the % operator of JavaScript: the result takes the sign of the dividend
JsRem(a, b) == IF a >= 0 THEN a % b ELSE -((-a) % b)

Digits == <<"0", "1", "2", "3", "4", "5", "6", "7", "8", "9">>

IsDigit(c) == \E i \in 1..10 : Digits[i] = c

DigitVal(c) == (CHOOSE i \in 1..10 : Digits[i] = c) - 1

\* String(n) for a natural number n
RECURSIVE NumToStr(_)
NumToStr(n) == IF n < 10 THEN <<Digits[n + 1]>>
               ELSE NumToStr(n \div 10) \o <<Digits[(n % 10) + 1]>>

\* s.padStart(2, '0')
PadStart2(s) == IF Len(s) >= 2 THEN s
                ELSE IF Len(s) = 1 THEN <<"0">> \o s ELSE <<"0", "0">>

\* parseInt(s, 10) of a text that starts with a digit: the value of its leading digits
RECURSIVE ParseDigits(_, _)
ParseDigits(s, acc) ==
    IF s = <<>> \/ ~IsDigit(Head(s)) THEN acc
    ELSE ParseDigits(Tail(s), acc * 10 + DigitVal(Head(s)))

ParseInt(s) == IF s = <<>> \/ ~IsDigit(Head(s)) THEN "NaN" ELSE ParseDigits(s, 0)

\* s.split(c) of a text given as a sequence of characters
RECURSIVE SplitChars(_, _, _)
SplitChars(s, c, cur) ==
    IF s = <<>> THEN <<cur>>
    ELSE IF Head(s) = c THEN <<cur>> \o SplitChars(Tail(s), c, <<>>)
    ELSE SplitChars(Tail(s), c, Append(cur, Head(s)))

\* s.slice(0, 5)
Slice5(s) == IF Len(s) <= 5 THEN s ELSE SubSeq(s, 1, 5)

\* dias_semana.split(','): the tokens; the empty text splits into one empty token
SplitComma(s) == IF s = <<>> THEN <<"">> ELSE s

\* arr.join(','): the text whose tokens are arr; [] and [""] both join to the empty text
JoinComma(arr) == IF arr = <<"">> THEN <<>> ELSE arr

\* arr.filter(Boolean) on an array of strings and nulls
RECURSIVE FilterBoolean(_)
FilterBoolean(arr) ==
    IF arr = <<>> THEN <<>>
    ELSE IF Head(arr) \in {"", "null"} THEN FilterBoolean(Tail(arr))
    ELSE <<Head(arr)>> \o FilterBoolean(Tail(arr))

\* arr.includes(x)
Includes(arr, x) == \E i \in 1..Len(arr) : arr[i] = x

\* Array.from(new Set(arr)) after adding the elements of arr in order to the set `seen`
RECURSIVE AddAll(_, _)
AddAll(seen, arr) ==
    IF arr = <<>> THEN seen
    ELSE AddAll(IF Includes(seen, Head(arr)) THEN seen ELSE Append(seen, Head(arr)), Tail(arr))

Range(f) == {f[i] : i \in DOMAIN f}

-----------------------------------------------------------------------------
(* Schedule normalisation: POST and PUT /api/dispositivo/horarios *)

dayOrder == <<"D", "L", "M", "X", "J", "V", "S">>

\* dayOrder.indexOf(d): 0-based, -1 when absent
IndexOfDay(d) == IF \E i \in 1..7 : dayOrder[i] = d
                 THEN (CHOOSE i \in 1..7 : dayOrder[i] = d) - 1
                 ELSE -1

\* dayOrder[(idx + delta + 7) % 7], undefined (filtered out) when the index is negative
ShiftDay(d, delta) ==
    LET idx == IndexOfDay(d)
        k   == JsRem(idx + delta + 7, 7)
    IN  IF idx = -1 THEN "null"
        ELSE IF k < 0 THEN "null"
        ELSE dayOrder[k + 1]

shiftDays(daysArr, delta) ==
    FilterBoolean([i \in 1..Len(daysArr) |-> ShiftDay(daysArr[i], delta)])

\* h * 60 + m + offsetMin, for [h, m] = timeStr.split(':').map(v => parseInt(v, 10))
totalDe(hm, offsetMin) == ParseInt(hm[1]) * 60 + ParseInt(hm[2]) + offsetMin

\* `${String(hh).padStart(2, '0')}:${String(mm).padStart(2, '0')}` for hh = Math.floor(norm / 60)
\* and mm = norm % 60
timeDe(norm) == PadStart2(NumToStr(norm \div 60)) \o <<":">> \o PadStart2(NumToStr(norm % 60))

\* the object toUtc returns once total is known: norm = ((total % 1440) + 1440) % 1440
\* and delta = Math.floor(total / 1440)
toUtcDe(total) ==
    [time |-> timeDe(JsRem(JsRem(total, 1440) + 1440, 1440)), delta |-> total \div 1440]

toUtc(timeStr, offsetMin) == toUtcDe(totalDe(SplitChars(timeStr, ":", <<>>), offsetMin))

\* daySet: the days shifted by the delta of the start, then, when the delta of the end
\* differs, the days shifted by the delta of the end that are not yet in the set
daySetDe(daysArr, startDelta, endDelta) ==
    IF endDelta # startDelta
    THEN AddAll(AddAll(<<>>, shiftDays(daysArr, startDelta)), shiftDays(daysArr, endDelta))
    ELSE AddAll(<<>>, shiftDays(daysArr, startDelta))

\* the three values the block assigns, once startUtc and endUtc are known
NormalizarCon(dias_semana, startUtc, endUtc) ==
    [dias_semana |-> JoinComma(daySetDe(FilterBoolean(SplitComma(dias_semana)),
                                        startUtc.delta, endUtc.delta)),
     hora_inicio |-> startUtc.time,
     hora_fin    |-> endUtc.time,
     startDelta  |-> startUtc.delta,
     endDelta    |-> endUtc.delta]

\* Normalizar with the days moved by the delta of the start only
NormalizarSoloInicio(dias_semana, hora_inicio, hora_fin, tz_offset) ==
    NormalizarCon(dias_semana, toUtc(hora_inicio, tz_offset),
                  [time |-> toUtc(hora_fin, tz_offset).time,
                   delta |-> toUtc(hora_inicio, tz_offset).delta])

\* the block guarded by tz_offset !== undefined && tz_offset !== null
Normalizar(dias_semana, hora_inicio, hora_fin, tz_offset) ==
    NormalizarCon(dias_semana, toUtc(hora_inicio, tz_offset), toUtc(hora_fin, tz_offset))

\* the columns dias_semana, hora_inicio, hora_fin of a request or of its normalisation
Columnas(v) ==
    [dias_semana |-> v.dias_semana, hora_inicio |-> v.hora_inicio, hora_fin |-> v.hora_fin]

\* the values a schedule handler writes: normalised when the request carries tz_offset
\* (tz_offset is <<>> when the request has none, <<o>> when it has the number o)
ValoresGuardados(body) ==
    IF body.tz_offset # <<>>
    THEN Columnas(Normalizar(body.dias_semana, body.hora_inicio, body.hora_fin,
                             body.tz_offset[1]))
    ELSE Columnas(body)

-----------------------------------------------------------------------------
(* The clock *)

\* the instant of weekday dia (0 = Sunday), hour hh, minute mm, phase f
Instante(dia, hh, mm, f) == ((dia * 1440) + hh * 60 + mm) * Fases + f

\* Date.getUTCDay, getUTCHours, getUTCMinutes of the instant t
getUTCDay(t) == (t \div (1440 * Fases)) % 7
getUTCHours(t) == ((t \div Fases) % 1440) \div 60
getUTCMinutes(t) == ((t \div Fases) % 1440) % 60

\* the minute of the week an instant lies in
MinutoDe(t) == t \div Fases

\* `${hora.toString().padStart(2,'0')}:${minuto.toString().padStart(2,'0')}`
horaActualStr(t) ==
    PadStart2(NumToStr(getUTCHours(t))) \o <<":">> \o PadStart2(NumToStr(getUTCMinutes(t)))

diaMap == [L |-> 1, M |-> 2, X |-> 3, J |-> 4, V |-> 5, S |-> 6, D |-> 0]

\* Object.keys(diaMap).find(key => diaMap[key] === diaSemanaActual)
diaActualLetra(t) == CHOOSE key \in DOMAIN diaMap : diaMap[key] = getUTCDay(t)

-----------------------------------------------------------------------------
(* The schedule actuation engine: ejecutarHorarios *)

messageInicio == [bomba |-> "encendida", valvula |-> "cerrada"]
\* messageFin with the valve left as messageInicio has it
messageFinValvulaCerrada == [bomba |-> "apagada", valvula |-> "cerrada"]
messageFin == [bomba |-> "apagada", valvula |-> "abierta"]

\* ConsultaHorariosActivos without its WHERE h.activo = true
ConsultaTodosLosHorarios(tablaHorarios, tablaRegistro) ==
    {[horario_id |-> h.horario_id, serial |-> h.serial, dias_semana |-> h.dias_semana,
      hora_inicio |-> h.hora_inicio, hora_fin |-> h.hora_fin, activo |-> h.activo,
      topic |-> r.topic] :
        <<h, r>> \in {p \in tablaHorarios \X tablaRegistro : p[1].serial = p[2].serial}}

\* SELECT h.*, r.topic FROM horarios h JOIN registro r ON h.serial = r.serial
\* WHERE h.activo = true
ConsultaHorariosActivos(tablaHorarios, tablaRegistro) ==
    {[horario_id |-> h.horario_id, serial |-> h.serial, dias_semana |-> h.dias_semana,
      hora_inicio |-> h.hora_inicio, hora_fin |-> h.hora_fin, activo |-> h.activo,
      topic |-> r.topic] :
        <<h, r>> \in {p \in tablaHorarios \X tablaRegistro :
                        p[1].serial = p[2].serial /\ p[1].activo = TRUE}}

\* the orders in which the store may return a set of rows (the query has no ORDER BY)
Ordenes(S) == {q \in [1..Cardinality(S) -> S] : \A i, j \in DOMAIN q : i # j => q[i] # q[j]}

\* the keys of horariosPorSerial, in insertion order
RECURSIVE SerialesEnOrden(_, _)
SerialesEnOrden(rows, seen) ==
    IF rows = <<>> THEN seen
    ELSE SerialesEnOrden(Tail(rows),
            IF Includes(seen, Head(rows).serial) THEN seen ELSE Append(seen, Head(rows).serial))

\* horariosPorSerial[serial]
RECURSIVE DelSerial(_, _)
DelSerial(rows, serial) ==
    IF rows = <<>> THEN <<>>
    ELSE IF Head(rows).serial = serial THEN <<Head(rows)>> \o DelSerial(Tail(rows), serial)
    ELSE DelSerial(Tail(rows), serial)

\* PublicaHorario without the test of the day (if (!diaCoincide) continue)
PublicaHorarioSinDia(horario, topicIn, t) ==
    LET horaInicio == Slice5(horario.hora_inicio)
        horaFin    == Slice5(horario.hora_fin)
    IN  (IF horaActualStr(t) = horaInicio
         THEN <<[topic |-> topicIn, message |-> messageInicio, horario_id |-> horario.horario_id]>>
         ELSE <<>>)
        \o
        (IF horaActualStr(t) = horaFin
         THEN <<[topic |-> topicIn, message |-> messageFin, horario_id |-> horario.horario_id]>>
         ELSE <<>>)

\* PublicaHorario with the test of hora_fin made the else branch of the test of hora_inicio
PublicaHorarioElseIf(horario, topicIn, t) ==
    LET diasSemana  == SplitComma(horario.dias_semana)
        horaInicio  == Slice5(horario.hora_inicio)
        horaFin     == Slice5(horario.hora_fin)
        diaCoincide == Includes(diasSemana, diaActualLetra(t))
    IN  IF ~diaCoincide THEN <<>>
        ELSE IF horaActualStr(t) = horaInicio
        THEN <<[topic |-> topicIn, message |-> messageInicio, horario_id |-> horario.horario_id]>>
        ELSE IF horaActualStr(t) = horaFin
        THEN <<[topic |-> topicIn, message |-> messageFin, horario_id |-> horario.horario_id]>>
        ELSE <<>>

\* what the body of the inner loop publishes for one schedule at instant t
PublicaHorario(horario, topicIn, t) ==
    LET diasSemana  == SplitComma(horario.dias_semana)
        horaInicio  == Slice5(horario.hora_inicio)
        horaFin     == Slice5(horario.hora_fin)
        diaCoincide == Includes(diasSemana, diaActualLetra(t))
    IN  IF ~diaCoincide THEN <<>>
        ELSE (IF horaActualStr(t) = horaInicio
              THEN <<[topic |-> topicIn, message |-> messageInicio, horario_id |-> horario.horario_id]>>
              ELSE <<>>)
             \o
             (IF horaActualStr(t) = horaFin
              THEN <<[topic |-> topicIn, message |-> messageFin, horario_id |-> horario.horario_id]>>
              ELSE <<>>)

\* PublicaGrupo that stops after the first schedule of the serial
PublicaGrupoPrimero(hs, topicIn, t) ==
    IF hs = <<>> THEN <<>>
    ELSE PublicaHorario(Head(hs), topicIn, t)

\* the inner loop: for (const horario of horariosDelSerial)
RECURSIVE PublicaGrupo(_, _, _)
PublicaGrupo(hs, topicIn, t) ==
    IF hs = <<>> THEN <<>>
    ELSE PublicaHorario(Head(hs), topicIn, t) \o PublicaGrupo(Tail(hs), topicIn, t)

\* PublicaSeriales with the topic taken from the first row of the result instead of the
\* first row of the serial
RECURSIVE PublicaSerialesPrimerTopic(_, _, _)
PublicaSerialesPrimerTopic(seriales, rows, t) ==
    IF seriales = <<>> THEN <<>>
    ELSE LET hs      == DelSerial(rows, Head(seriales))
             topicIn == rows[1].topic \o "/in"
         IN  PublicaGrupo(hs, topicIn, t) \o PublicaSerialesPrimerTopic(Tail(seriales), rows, t)

\* the outer loop: for (const serial in horariosPorSerial)
RECURSIVE PublicaSeriales(_, _, _)
PublicaSeriales(seriales, rows, t) ==
    IF seriales = <<>> THEN <<>>
    ELSE LET hs      == DelSerial(rows, Head(seriales))
             topicIn == hs[1].topic \o "/in"
         IN  PublicaGrupo(hs, topicIn, t) \o PublicaSeriales(Tail(seriales), rows, t)

\* every mqttClient.publish of one execution whose query returned rows and that read the clock at t
Publicaciones(rows, t) == PublicaSeriales(SerialesEnOrden(rows, <<>>), rows, t)

-----------------------------------------------------------------------------
(* Requests the schedule handlers receive *)

SerialesRegistrados == {"WK1", "WK2"}
SerialesEntrada == SerialesRegistrados \cup {"WK9"}

TopicDe(serial) == "mk-208/VB/" \o serial

\* registro.rgt_id and registro.usr_id of the registered serials
RgtIdDe(serial) == IF serial = "WK1" THEN 1 ELSE 2
UsrIdDe(serial) == IF serial = "WK1" THEN 1 ELSE 2

\* the row POST /api/dispositivo/registro inserts: the INSERT names neither estatus nor
\* ultima_conexion (<<>> is NULL, <<t>> the instant t)
FilaRegistro(serial, estatus, ultima_conexion) ==
    [rgt_id |-> RgtIdDe(serial), usr_id |-> UsrIdDe(serial), serial |-> serial,
     topic |-> TopicDe(serial), estatus |-> estatus, ultima_conexion |-> ultima_conexion]

RegistroInicial == {FilaRegistro(s, "null", <<>>) : s \in SerialesRegistrados}

DiasEntrada == {<<"L", "M">>}

T1200 == <<"1", "2", ":", "0", "0">>
T1230 == <<"1", "2", ":", "3", "0">>
T1300 == <<"1", "3", ":", "0", "0">>
T1330 == <<"1", "3", ":", "3", "0">>

\* local windows and the offset sent with them; zona is Date.getTimezoneOffset() on the
\* clock the times were read on (minutes behind UTC), which a request carries as tz_offset
\* or not at all, and which the handlers do not see
VentanasEntrada ==
    { [hora_inicio |-> T1200, hora_fin |-> T1230, tz_offset |-> <<60>>, zona |-> 60],
      [hora_inicio |-> T1330, hora_fin |-> T1330, tz_offset |-> <<>>, zona |-> 60] }

CuerposHorario ==
    { [dias_semana |-> d, hora_inicio |-> v.hora_inicio, hora_fin |-> v.hora_fin,
       tz_offset |-> v.tz_offset, zona |-> v.zona, activo |-> a] :
          d \in DiasEntrada, v \in VentanasEntrada, a \in BOOLEAN }

\* the instants at which the process may be started
Arranques ==
    { Instante(1, hm[1], hm[2], f) : hm \in {<<12, 59>>, <<13, 29>>}, f \in 0..(Fases - 1) }
    \cup { Instante(1, 13, 14, Fases - 1), Instante(2, 12, 59, Fases - 1) }

-----------------------------------------------------------------------------
(* State after the process has connected to the broker and to the store *)

\* the row a POST /api/dispositivo/horarios of `body` for `serial` leaves in the table
FilaGuardada(horario_id, serial, body, activo) ==
    LET v == ValoresGuardados(body)
    IN  [horario_id |-> horario_id, serial |-> serial, dias_semana |-> v.dias_semana,
         hora_inicio |-> v.hora_inicio, hora_fin |-> v.hora_fin, activo |-> activo]

CuerpoDe(dias, ini, fin, tz) ==
    [dias_semana |-> dias, hora_inicio |-> ini, hora_fin |-> fin, tz_offset |-> tz, activo |-> TRUE]

\* contents of the horarios table left by earlier runs of the process
HorariosIniciales ==
    { {},
      { FilaGuardada(1, "WK1", CuerpoDe(<<"L">>, T1300, T1330, <<>>), TRUE) },
      { FilaGuardada(1, "WK1", CuerpoDe(<<"L">>, T1300, T1330, <<>>), TRUE),
        FilaGuardada(2, "WK2", CuerpoDe(<<"L", "M">>, T1200, T1230, <<60>>), TRUE) },
      { FilaGuardada(1, "WK1", CuerpoDe(<<"L">>, T1330, T1330, <<>>), TRUE),
        FilaGuardada(2, "WK2", CuerpoDe(<<"L", "M">>, T1300, T1330, <<>>), FALSE) },
      { FilaGuardada(1, "WK9", CuerpoDe(<<"L">>, T1300, T1330, <<>>), TRUE),
        FilaGuardada(2, "WK1", CuerpoDe(<<"L">>, T1200, T1230, <<60>>), FALSE) },
      { FilaGuardada(1, "WK1", CuerpoDe(<<"M">>, T1300, T1330, <<>>), FALSE) },
      { FilaGuardada(1, "WK1", CuerpoDe(<<"L">>, T1300, T1330, <<>>), TRUE),
        FilaGuardada(2, "WK1", CuerpoDe(<<"L", "M">>, T1230, T1300, <<>>), TRUE) } }

\* no schedule request has been answered yet
SinRespuesta == [ruta |-> "ninguna"]

InitSched ==
    /\ registro = RegistroInicial
    /\ horarios \in HorariosIniciales
    /\ seqHorarioId = Cardinality(horarios) + 1
    /\ mqttClient = TRUE
    /\ horariosInterval = <<>>
    /\ reloj \in Arranques
    /\ ejecuciones = {}
    /\ historial = {}
    /\ postPendientes = {}
    /\ escrituras = 0
    /\ respuesta = SinRespuesta

InitNormIdle ==
    /\ normIn = <<>>
    /\ normOut = <<>>
    /\ normBack = <<>>

\* no message has been delivered and no run of marcarOfflineSiNoReportan is due
InitIngIdle ==
    /\ sesion = {}
    /\ registroValor = <<>>
    /\ bandeja = <<>>
    /\ entregados = 0
    /\ manejadores = {}
    /\ terminados = {}
    /\ confirmados = <<>>
    /\ envios = {}
    /\ barrido = [pendiente |-> FALSE, ultimo |-> <<>>]

\* a connection the pool has just opened
ConexionNueva == [libre |-> TRUE, transaccion |-> FALSE, escritos |-> <<>>]

\* no handler of the registration model has run
InitRegIdle ==
    /\ conexiones = [c \in 1..MaxConexiones |-> ConexionNueva]
    /\ peticiones = {}
    /\ secuencias = [rgt_id |-> 1, vlr_id |-> 1]

Init == InitSched /\ InitNormIdle /\ InitIngIdle /\ InitRegIdle

-----------------------------------------------------------------------------
(* Schedule handlers *)

HayCupo == escrituras < MaxEscrituras

\* res.status(status).json(json) of the handler of `ruta`, with the fields of the request
\* the handler branches on (horario_id is <<>> when null or absent, <<id>> otherwise)
Respuesta(ruta, horario_id, activo, status, json) ==
    [ruta |-> ruta, peticion |-> [horario_id |-> horario_id, activo |-> activo],
     status |-> status, json |-> json]

\* the rows an UPDATE or DELETE ... WHERE horario_id = $n finds
FilasDe(horario_id) == {h \in horarios : h.horario_id = horario_id}

\* PUT /api/dispositivo/horarios/activo/:serial
PutHorariosActivoSerial(serial, activo) ==
    /\ HayCupo
    /\ horarios' = {IF h.serial = serial THEN [h EXCEPT !.activo = activo] ELSE h : h \in horarios}
    /\ escrituras' = escrituras + 1
    /\ respuesta' = Respuesta("PUT horarios/activo/:serial", <<>>, activo, 200, [activo |-> activo])
    /\ UNCHANGED <<registro, seqHorarioId, mqttClient, horariosInterval, reloj, ejecuciones,
                   historial, postPendientes, normVars, ingVars, regVars>>

\* PostHorarioInactivo with the UPDATE of the branch for a request that names a schedule
PostHorarioInactivoActualiza(horario_id, serial, body) ==
    /\ HayCupo
    /\ body.activo = FALSE
    /\ horarios' = {IF <<h.horario_id>> = horario_id /\ h.serial = serial
                    THEN [h EXCEPT !.activo = body.activo] ELSE h : h \in horarios}
    /\ escrituras' = escrituras + 1
    /\ respuesta' = Respuesta("POST horarios", horario_id, body.activo, 200, [horario_id |-> <<>>])
    /\ UNCHANGED <<registro, seqHorarioId, mqttClient, horariosInterval, reloj,
                   ejecuciones, historial, postPendientes, normVars, ingVars, regVars>>

\* POST /api/dispositivo/horarios with activo === false, with or without horario_id:
\* answers 200 with horario_id null, writes nothing
PostHorarioInactivo(horario_id, serial, body) ==
    /\ HayCupo
    /\ body.activo = FALSE
    /\ escrituras' = escrituras + 1
    /\ respuesta' = Respuesta("POST horarios", horario_id, body.activo, 200, [horario_id |-> <<>>])
    /\ UNCHANGED <<registro, horarios, seqHorarioId, mqttClient, horariosInterval, reloj,
                   ejecuciones, historial, postPendientes, normVars, ingVars, regVars>>

\* POST /api/dispositivo/horarios without horario_id: the INSERT ... RETURNING horario_id
PostHorarioInsert(serial, body) ==
    /\ HayCupo
    /\ body.activo = TRUE
    /\ Cardinality(horarios) < MaxHorarios
    /\ LET v == ValoresGuardados(body)
       IN  horarios' = horarios \cup
              {[horario_id |-> seqHorarioId, serial |-> serial, dias_semana |-> v.dias_semana,
                hora_inicio |-> v.hora_inicio, hora_fin |-> v.hora_fin, activo |-> body.activo]}
    /\ seqHorarioId' = seqHorarioId + 1
    /\ postPendientes' = postPendientes \cup {[serial |-> serial, horario_id |-> seqHorarioId]}
    /\ escrituras' = escrituras + 1
    /\ UNCHANGED <<registro, mqttClient, horariosInterval, reloj, ejecuciones, historial,
                   respuesta, normVars, ingVars, regVars>>

\* PostHorarioActivar with the UPDATE restricted to the row just inserted
PostHorarioActivarSoloNuevo(p) ==
    /\ p \in postPendientes
    /\ horarios' = {IF h.horario_id = p.horario_id THEN [h EXCEPT !.activo = TRUE] ELSE h :
                      h \in horarios}
    /\ postPendientes' = postPendientes \ {p}
    /\ respuesta' = Respuesta("POST horarios", <<>>, TRUE, 201, [horario_id |-> <<p.horario_id>>])
    /\ UNCHANGED <<registro, seqHorarioId, mqttClient, horariosInterval, reloj, ejecuciones,
                   historial, escrituras, normVars, ingVars, regVars>>

\* POST /api/dispositivo/horarios without horario_id, after the INSERT:
\* UPDATE horarios SET activo = true WHERE serial = $1, then the answer 201
PostHorarioActivar(p) ==
    /\ p \in postPendientes
    /\ horarios' = {IF h.serial = p.serial THEN [h EXCEPT !.activo = TRUE] ELSE h : h \in horarios}
    /\ postPendientes' = postPendientes \ {p}
    /\ respuesta' = Respuesta("POST horarios", <<>>, TRUE, 201, [horario_id |-> <<p.horario_id>>])
    /\ UNCHANGED <<registro, seqHorarioId, mqttClient, horariosInterval, reloj, ejecuciones,
                   historial, escrituras, normVars, ingVars, regVars>>

\* POST /api/dispositivo/horarios with horario_id: UPDATE ... WHERE horario_id = $5 AND serial = $6
PostHorarioUpdate(horario_id, serial, body) ==
    /\ HayCupo
    /\ body.activo = TRUE
    /\ LET v == ValoresGuardados(body)
       IN  horarios' = {IF h.horario_id = horario_id /\ h.serial = serial
                        THEN [h EXCEPT !.dias_semana = v.dias_semana, !.hora_inicio = v.hora_inicio,
                                       !.hora_fin = v.hora_fin, !.activo = body.activo]
                        ELSE h : h \in horarios}
    /\ escrituras' = escrituras + 1
    /\ respuesta' = Respuesta("POST horarios", <<horario_id>>, body.activo, 200,
                              [horario_id |-> <<horario_id>>])
    /\ UNCHANGED <<registro, seqHorarioId, mqttClient, horariosInterval, reloj, ejecuciones,
                   historial, postPendientes, normVars, ingVars, regVars>>

\* PUT /api/dispositivo/horarios/:horario_id
PutHorario(horario_id, body) ==
    /\ HayCupo
    /\ LET v == ValoresGuardados(body)
       IN  horarios' = {IF h.horario_id = horario_id
                        THEN [h EXCEPT !.dias_semana = v.dias_semana, !.hora_inicio = v.hora_inicio,
                                       !.hora_fin = v.hora_fin, !.activo = body.activo]
                        ELSE h : h \in horarios}
    /\ escrituras' = escrituras + 1
    /\ respuesta' = IF FilasDe(horario_id) = {}
                    THEN Respuesta("PUT horarios/:horario_id", <<horario_id>>, body.activo, 404,
                                   [horario_id |-> <<>>])
                    ELSE Respuesta("PUT horarios/:horario_id", <<horario_id>>, body.activo, 200,
                                   [horario_id |-> <<horario_id>>])
    /\ UNCHANGED <<registro, seqHorarioId, mqttClient, horariosInterval, reloj, ejecuciones,
                   historial, postPendientes, normVars, ingVars, regVars>>

\* DELETE /api/dispositivo/horarios/:horario_id
DeleteHorario(horario_id) ==
    /\ HayCupo
    /\ horarios' = {h \in horarios : h.horario_id # horario_id}
    /\ escrituras' = escrituras + 1
    /\ respuesta' = IF FilasDe(horario_id) = {}
                    THEN Respuesta("DELETE horarios/:horario_id", <<horario_id>>, <<>>, 404,
                                   [horario_id |-> <<>>])
                    ELSE Respuesta("DELETE horarios/:horario_id", <<horario_id>>, <<>>, 200,
                                   [horario_id |-> <<horario_id>>])
    /\ UNCHANGED <<registro, seqHorarioId, mqttClient, horariosInterval, reloj, ejecuciones,
                   historial, postPendientes, normVars, ingVars, regVars>>

\* PATCH /api/dispositivo/horarios/:horario_id
PatchHorario(horario_id, activo) ==
    /\ HayCupo
    /\ horarios' = {IF h.horario_id = horario_id THEN [h EXCEPT !.activo = activo] ELSE h :
                      h \in horarios}
    /\ escrituras' = escrituras + 1
    /\ respuesta' = IF FilasDe(horario_id) = {}
                    THEN Respuesta("PATCH horarios/:horario_id", <<horario_id>>, activo, 404,
                                   [horario_id |-> <<>>])
                    ELSE Respuesta("PATCH horarios/:horario_id", <<horario_id>>, activo, 200,
                                   [horario_id |-> <<horario_id>>])
    /\ UNCHANGED <<registro, seqHorarioId, mqttClient, horariosInterval, reloj, ejecuciones,
                   historial, postPendientes, normVars, ingVars, regVars>>

-----------------------------------------------------------------------------
(* The scheduler: iniciarEjecucionHorarios and the executions of ejecutarHorarios *)

\* ejecutarHorarios up to its first await (pool.connect): nothing starts without a client
NuevaEjecucion == IF ~mqttClient THEN {} ELSE {[inicio |-> reloj, pc |-> "connect"]}

\* iniciarEjecucionHorarios, called once by initializeApplicationServices:
\* one execution at once, then setInterval(..., 60000)
iniciarEjecucionHorarios ==
    /\ horariosInterval = <<>>
    /\ ejecuciones' = ejecuciones \cup NuevaEjecucion
    /\ horariosInterval' = <<Fases>>
    /\ UNCHANGED <<registro, horarios, seqHorarioId, mqttClient, reloj, historial,
                   postPendientes, escrituras, respuesta, normVars, ingVars, regVars>>

\* the setInterval callback: another execution, whatever the earlier ones are doing
IntervaloHorarios ==
    /\ horariosInterval = <<0>>
    /\ ejecuciones' = ejecuciones \cup NuevaEjecucion
    /\ horariosInterval' = <<Fases>>
    /\ UNCHANGED <<registro, horarios, seqHorarioId, mqttClient, reloj, historial,
                   postPendientes, escrituras, respuesta, normVars, ingVars, regVars>>

\* time passes once the services are started; a due interval callback runs before the
\* clock moves on
AvanzarReloj ==
    /\ horariosInterval \notin {<<>>, <<0>>}
    /\ \E a \in Arranques : reloj >= a /\ reloj - a < MaxTranscurrido
    /\ reloj' = reloj + 1
    /\ horariosInterval' = <<horariosInterval[1] - 1>>
    /\ UNCHANGED <<registro, horarios, seqHorarioId, mqttClient, ejecuciones, historial,
                   postPendientes, escrituras, respuesta, normVars, ingVars, regVars>>

\* ejecutarHorarios: the connection is there and the store answers the query
ejecutarHorariosConsulta(e) ==
    /\ e \in ejecuciones
    /\ e.pc = "connect"
    /\ \E rows \in Ordenes(ConsultaHorariosActivos(horarios, registro)) :
          ejecuciones' = (ejecuciones \ {e}) \cup
              {[inicio |-> e.inicio, pc |-> "query", rows |-> rows, vista |-> horarios]}
    /\ UNCHANGED <<registro, horarios, seqHorarioId, mqttClient, horariosInterval, reloj,
                   historial, postPendientes, escrituras, respuesta, normVars, ingVars, regVars>>

\* ejecutarHorarios after the query: no rows, return; otherwise read the clock and publish
ejecutarHorariosEvaluar(e) ==
    /\ e \in ejecuciones
    /\ e.pc = "query"
    /\ ejecuciones' = ejecuciones \ {e}
    /\ historial' = historial \cup
          {[inicio |-> e.inicio, rows |-> e.rows, vista |-> e.vista,
            ahora |-> IF e.rows = <<>> THEN <<>> ELSE <<reloj>>,
            publicados |-> IF e.rows = <<>> THEN <<>> ELSE Publicaciones(e.rows, reloj)]}
    /\ UNCHANGED <<registro, horarios, seqHorarioId, mqttClient, horariosInterval, reloj,
                   postPendientes, escrituras, respuesta, normVars, ingVars, regVars>>

\* pool.connect or the query rejects: the catch block logs, nothing is published
ejecutarHorariosError(e) ==
    /\ e \in ejecuciones
    /\ e.pc = "connect"
    /\ ejecuciones' = ejecuciones \ {e}
    /\ UNCHANGED <<registro, horarios, seqHorarioId, mqttClient, horariosInterval, reloj,
                   historial, postPendientes, escrituras, respuesta, normVars, ingVars, regVars>>

-----------------------------------------------------------------------------

IdsConocidos == 1..(seqHorarioId - 1)

\* the horario_id of a POST body: null, or the id of a schedule the client has seen
IdsPeticion == {<<>>} \cup {<<id>> : id \in IdsConocidos}

Next ==
    \/ \E s \in SerialesEntrada, a \in BOOLEAN : PutHorariosActivoSerial(s, a)
    \/ \E id \in IdsPeticion, s \in SerialesEntrada, b \in CuerposHorario :
          PostHorarioInactivo(id, s, b)
    \/ \E s \in SerialesEntrada, b \in CuerposHorario : PostHorarioInsert(s, b)
    \/ \E p \in postPendientes : PostHorarioActivar(p)
    \/ \E id \in IdsConocidos, s \in SerialesEntrada, b \in CuerposHorario :
          PostHorarioUpdate(id, s, b)
    \/ \E id \in IdsConocidos, b \in CuerposHorario : PutHorario(id, b)
    \/ \E id \in IdsConocidos : DeleteHorario(id)
    \/ \E id \in IdsConocidos, a \in BOOLEAN : PatchHorario(id, a)
    \/ iniciarEjecucionHorarios
    \/ IntervaloHorarios
    \/ AvanzarReloj
    \/ \E e \in ejecuciones : ejecutarHorariosConsulta(e)
    \/ \E e \in ejecuciones : ejecutarHorariosEvaluar(e)
    \/ \E e \in ejecuciones : ejecutarHorariosError(e)

Spec == Init /\ [][Next]_vars

-----------------------------------------------------------------------------
(* Vocabulary of the properties *)

\* minute of the day and weekday (0 = Sunday) of an instant
MinutoDelDia(t) == (t \div Fases) % 1440
DiaSemana(t) == (t \div (Fases * 1440)) % 7

\* minute of the day a stored "HH:MM" names
MinutosDe(hora) ==
    LET hm == SplitChars(hora, ":", <<>>) IN ParseInt(hm[1]) * 60 + ParseInt(hm[2])

\* the weekday of instant t is one of the days of schedule S
EnDias(S, t) == dayOrder[DiaSemana(t) + 1] \in Range(S.dias_semana)

EsInicio(S, t) == EnDias(S, t) /\ MinutoDelDia(t) = MinutosDe(S.hora_inicio)
EsFin(S, t) == EnDias(S, t) /\ MinutoDelDia(t) = MinutosDe(S.hora_fin)

Registrado(serial) == \E g \in registro : g.serial = serial
TopicRegistrado(serial) == (CHOOSE g \in registro : g.serial = serial).topic

\* the active schedules of registered serials in the table an execution read
ActivosLeidos(r) == {S \in r.vista : S.activo = TRUE /\ Registrado(S.serial)}

\* the executions that read the clock
Ticks == {r \in historial : r.ahora # <<>>}

\* positions in r.publicados of the commands with message msg published for schedule id
PublicadosPor(r, id, msg) ==
    {i \in DOMAIN r.publicados :
        r.publicados[i].horario_id = id /\ r.publicados[i].message = msg}

\* positions in r.publicados of the commands sent to a topic
PublicadosA(r, topic) == {i \in DOMAIN r.publicados : r.publicados[i].topic = topic}

-----------------------------------------------------------------------------
(* C1: an execution that reads the clock on a day of an active schedule S of a
   registered serial, at the minute S.hora_inicio, publishes exactly one turn-on
   command for S, to the topic of that registration followed by "/in", and
   publishes nothing to a registration none of whose schedules has a boundary
   at that day and minute. *)
C1_InicioPublicaUnaVez ==
    \A r \in Ticks :
        LET t == r.ahora[1]
        IN  \A S \in ActivosLeidos(r) :
                EsInicio(S, t) =>
                    /\ Cardinality(PublicadosPor(r, S.horario_id, messageInicio)) = 1
                    /\ \A i \in PublicadosPor(r, S.horario_id, messageInicio) :
                          r.publicados[i].topic = TopicRegistrado(S.serial) \o "/in"
                    /\ \A g \in registro :
                          (~\E S2 \in ActivosLeidos(r) :
                                S2.serial = g.serial /\ (EsInicio(S2, t) \/ EsFin(S2, t)))
                          => PublicadosA(r, g.topic \o "/in") = {}

\* a tick at the start of a schedule, read together with an active schedule of another
\* registration that has no boundary then
C1_Witness ==
    \E r \in Ticks :
        \E S \in ActivosLeidos(r), S2 \in ActivosLeidos(r) :
            /\ EsInicio(S, r.ahora[1])
            /\ S2.serial # S.serial
            /\ ~EsInicio(S2, r.ahora[1]) /\ ~EsFin(S2, r.ahora[1])
            /\ Cardinality(PublicadosPor(r, S.horario_id, messageInicio)) = 1
            /\ Len(r.publicados) = 1

-----------------------------------------------------------------------------
(* C2: with the single schedule {days {Mon}, 13:00 to 13:30, active} of
   registration WK1 in the table, the execution that reads the clock at Monday
   13:00 publishes exactly {"bomba":"encendida","valvula":"cerrada"} to the
   topic of WK1 followed by "/in", the one at Monday 13:30 publishes exactly
   {"bomba":"apagada","valvula":"abierta"} to the same topic, the one at Monday
   13:15 publishes nothing.  In general an execution on a day of an active
   schedule at its hora_fin publishes one apagada/abierta command for it, and no
   encendida/cerrada command when its start differs from its end. *)
R1Horario ==
    [horario_id |-> 1, serial |-> "WK1", dias_semana |-> <<"L">>,
     hora_inicio |-> T1300, hora_fin |-> T1330, activo |-> TRUE]

SoloMensajes(pubs) == [i \in DOMAIN pubs |-> [topic |-> pubs[i].topic, message |-> pubs[i].message]]

C2_EjemploR1 ==
    /\ \A r \in Ticks :
          r.vista = {R1Horario} =>
              LET t   == r.ahora[1]
                  out == SoloMensajes(r.publicados)
              IN  /\ (DiaSemana(t) = 1 /\ MinutoDelDia(t) = 13 * 60)
                        => out = <<[topic |-> "mk-208/VB/WK1/in",
                                    message |-> [bomba |-> "encendida", valvula |-> "cerrada"]]>>
                  /\ (DiaSemana(t) = 1 /\ MinutoDelDia(t) = 13 * 60 + 30)
                        => out = <<[topic |-> "mk-208/VB/WK1/in",
                                    message |-> [bomba |-> "apagada", valvula |-> "abierta"]]>>
                  /\ (DiaSemana(t) = 1 /\ MinutoDelDia(t) = 13 * 60 + 15) => out = <<>>
    /\ \A r \in Ticks :
          \A S \in ActivosLeidos(r) :
              EsFin(S, r.ahora[1]) =>
                  /\ Cardinality(PublicadosPor(r, S.horario_id,
                                    [bomba |-> "apagada", valvula |-> "abierta"])) = 1
                  /\ (S.hora_inicio # S.hora_fin =>
                        PublicadosPor(r, S.horario_id,
                                      [bomba |-> "encendida", valvula |-> "cerrada"]) = {})

\* the tick at Monday 13:30 with the schedule of R1 alone in the table has published
C2_Witness ==
    \E r \in Ticks :
        /\ r.vista = {R1Horario}
        /\ DiaSemana(r.ahora[1]) = 1 /\ MinutoDelDia(r.ahora[1]) = 13 * 60 + 30
        /\ Len(r.publicados) = 1

\* the two other ticks of the example
C2_WitnessInicio ==
    \E r \in Ticks :
        /\ r.vista = {R1Horario}
        /\ DiaSemana(r.ahora[1]) = 1 /\ MinutoDelDia(r.ahora[1]) = 13 * 60
        /\ Len(r.publicados) = 1

C2_WitnessMedio ==
    \E r \in Ticks :
        /\ r.vista = {R1Horario}
        /\ DiaSemana(r.ahora[1]) = 1 /\ MinutoDelDia(r.ahora[1]) = 13 * 60 + 15

-----------------------------------------------------------------------------
(* C3: an execution that reads the clock at a minute that is neither hora_inicio
   nor hora_fin of an active schedule S, or on a weekday that is not one of the
   days of S, publishes no command for S. *)
C3_FueraDeLimiteNoPublica ==
    \A r \in Ticks :
        \A S \in ActivosLeidos(r) :
            (\/ ~EnDias(S, r.ahora[1])
             \/ MinutoDelDia(r.ahora[1]) \notin {MinutosDe(S.hora_inicio), MinutosDe(S.hora_fin)})
            => \A i \in DOMAIN r.publicados : r.publicados[i].horario_id # S.horario_id

\* a tick one minute after the start of an active schedule, on one of its days
C3_Witness ==
    \E r \in Ticks :
        \E S \in ActivosLeidos(r) :
            /\ EnDias(S, r.ahora[1])
            /\ MinutoDelDia(r.ahora[1]) = MinutosDe(S.hora_inicio) + 1
            /\ r.publicados = <<>>

\* a tick at the start minute of an active schedule, on a day that is not one of its days
C3_WitnessDia ==
    \E r \in Ticks :
        \E S \in ActivosLeidos(r) :
            /\ ~EnDias(S, r.ahora[1])
            /\ MinutoDelDia(r.ahora[1]) = MinutosDe(S.hora_inicio)

-----------------------------------------------------------------------------
(* C4: an execution whose query read a table in which a registered serial has no
   row with activo = true publishes no command to the topic of that serial,
   whatever the time; and a serial without an active row stays without one
   until a schedule write request (or the pending UPDATE of a POST) changes
   the table. *)
SinActivos(tabla, serial) == ~\E S \in tabla : S.serial = serial /\ S.activo = TRUE

C4_SinActivosNoPublica ==
    /\ [](\A r \in historial :
            \A g \in registro :
                SinActivos(r.vista, g.serial) => PublicadosA(r, g.topic \o "/in") = {})
    /\ [][\A serial \in SerialesEntrada :
            (SinActivos(horarios, serial) /\ ~SinActivos(horarios', serial))
            => (escrituras' = escrituras + 1 \/ \E p \in postPendientes : p.serial = serial)]_vars

\* an execution read the clock at the start of a schedule of a registered serial whose
\* schedules are all inactive, and published nothing to it
C4_Witness ==
    \E r \in Ticks :
        \E S \in r.vista :
            /\ Registrado(S.serial)
            /\ SinActivos(r.vista, S.serial)
            /\ EsInicio(S, r.ahora[1])
            /\ PublicadosA(r, TopicRegistrado(S.serial) \o "/in") = {}

\* the same after the schedules of the serial were deactivated by a write of this run
C4_WitnessEscritura ==
    \E r \in Ticks :
        \E S \in r.vista :
            /\ Registrado(S.serial)
            /\ SinActivos(r.vista, S.serial)
            /\ EsInicio(S, r.ahora[1])
            /\ [S EXCEPT !.activo = TRUE] \in UNION HorariosIniciales
            /\ escrituras = 1

-----------------------------------------------------------------------------
(* C5: over a run of the scheduler every start boundary and every end boundary
   of an active schedule on one of its days produces its command exactly once:
   never twice for the same day and minute, and never zero times. *)

\* no two executions publish the same command for the same schedule in the same minute
C5_NuncaDosVeces ==
    \A r1 \in Ticks, r2 \in Ticks :
        (r1.inicio # r2.inicio /\ MinutoDe(r1.ahora[1]) = MinutoDe(r2.ahora[1]))
        => \A i \in DOMAIN r1.publicados, j \in DOMAIN r2.publicados :
              ~(/\ r1.publicados[i].horario_id = r2.publicados[j].horario_id
                /\ r1.publicados[i].message = r2.publicados[j].message)

\* when two executions started one interval apart both read the schedule S and read the
\* clock on either side of a boundary minute of S, and no earlier execution is still
\* running, some execution has published at that minute for S
C5_NuncaCero ==
    \A r1 \in Ticks, r2 \in Ticks :
        (/\ r2.inicio = r1.inicio + Fases
         /\ \A e \in ejecuciones : e.inicio > r2.inicio)
        => \A S \in ActivosLeidos(r1) \cap ActivosLeidos(r2) :
              \A m \in (MinutoDe(r1.ahora[1]) + 1)..(MinutoDe(r2.ahora[1]) - 1) :
                  (EsInicio(S, m * Fases) \/ EsFin(S, m * Fases))
                  => \E r \in Ticks :
                        /\ MinutoDe(r.ahora[1]) = m
                        /\ \E i \in DOMAIN r.publicados :
                              r.publicados[i].horario_id = S.horario_id

C5_ExactamenteUnaVez == C5_NuncaDosVeces /\ C5_NuncaCero

-----------------------------------------------------------------------------
(* C6: at most one execution of ejecutarHorarios is in progress at any time. *)
C6_UnaSolaEjecucion == Cardinality(ejecuciones) <= 1

-----------------------------------------------------------------------------
(* C7 as stated: an active schedule whose hora_inicio equals hora_fin never
   fires: no execution publishes a command for it. *)
DuracionCero(S) == MinutosDe(S.hora_inicio) = MinutosDe(S.hora_fin)

C7_DuracionCeroNuncaPublica ==
    \A r \in Ticks :
        \A S \in ActivosLeidos(r) :
            DuracionCero(S) =>
                \A i \in DOMAIN r.publicados : r.publicados[i].horario_id # S.horario_id

\* the commands of r published for schedule id, in the order of publication
MensajesPor(r, id) ==
    LET EsDe(p) == p.horario_id = id
        sel     == SelectSeq(r.publicados, EsDe)
    IN  [i \in DOMAIN sel |-> sel[i].message]

(* C7 amended: an active schedule of a registered serial whose hora_inicio
   equals hora_fin fires both commands: an execution that reads the clock on
   one of its days at that minute publishes for it the turn-on command followed
   by the turn-off command, and an execution at any other day or minute
   publishes nothing for it. *)
C7_DuracionCeroPublicaAmbos ==
    \A r \in Ticks :
        \A S \in ActivosLeidos(r) :
            DuracionCero(S) =>
                MensajesPor(r, S.horario_id) =
                    IF EsInicio(S, r.ahora[1])
                    THEN <<[bomba |-> "encendida", valvula |-> "cerrada"],
                           [bomba |-> "apagada", valvula |-> "abierta"]>>
                    ELSE <<>>

\* an execution read the clock at the single boundary of a zero-duration schedule
C7_Witness ==
    \E r \in Ticks :
        \E S \in ActivosLeidos(r) :
            /\ DuracionCero(S)
            /\ EsInicio(S, r.ahora[1])
            /\ Len(MensajesPor(r, S.horario_id)) = 2

-----------------------------------------------------------------------------
(* The normalisation on its own: one request body is normalised as the POST and
   PUT handlers do, and the values obtained are normalised again with the
   opposite offset. *)

\* "HH:MM" of a minute of the day
HoraTexto(m) == PadStart2(NumToStr(m \div 60)) \o <<":">> \o PadStart2(NumToStr(m % 60))

MinutosNorm == {0, 10, 9 * 60 + 5, 13 * 60, 23 * 60 + 50, 23 * 60 + 59}

\* offsets of the time zones in use, and offsets of a day and more
OffsetsReales == {-720, -300, -1, 0, 1, 300, 840}
OffsetsNorm == OffsetsReales \cup {-11520, -1441, -1440, 1440, 1441}

\* the day sets of at most MaxDiasNorm days, each written in the order of dayOrder
DiasNorm ==
    { [i \in DOMAIN q |-> dayOrder[q[i]]] :
        q \in { x \in UNION {[1..n -> 1..7] : n \in 1..MaxDiasNorm} :
                  \A i, j \in DOMAIN x : i < j => x[i] < x[j] } }

EntradasNorm ==
    { [dias_semana |-> d, hora_inicio |-> HoraTexto(a), hora_fin |-> HoraTexto(b),
       tz_offset |-> o] :
          d \in DiasNorm, a \in MinutosNorm, b \in MinutosNorm, o \in OffsetsNorm }

InitNorm ==
    /\ registro = RegistroInicial
    /\ horarios = {}
    /\ seqHorarioId = 1
    /\ mqttClient = TRUE
    /\ horariosInterval = <<>>
    /\ reloj = Instante(1, 12, 59, 0)
    /\ ejecuciones = {}
    /\ historial = {}
    /\ postPendientes = {}
    /\ escrituras = 0
    /\ respuesta = SinRespuesta
    /\ normIn \in {<<e>> : e \in EntradasNorm}
    /\ normOut = <<>>
    /\ normBack = <<>>
    /\ InitIngIdle
    /\ InitRegIdle

\* the conversion of the request to UTC
AplicarNormalizar ==
    /\ normIn # <<>>
    /\ normOut = <<>>
    /\ normOut' = <<Normalizar(normIn[1].dias_semana, normIn[1].hora_inicio,
                               normIn[1].hora_fin, normIn[1].tz_offset)>>
    /\ UNCHANGED <<schedVars, normIn, normBack, ingVars, regVars>>

\* the same conversion applied to its result, with the opposite offset
AplicarInversa ==
    /\ normOut # <<>>
    /\ normBack = <<>>
    /\ normBack' = <<Normalizar(normOut[1].dias_semana, normOut[1].hora_inicio,
                                normOut[1].hora_fin, -normIn[1].tz_offset)>>
    /\ UNCHANGED <<schedVars, normIn, normOut, ingVars, regVars>>

NextNorm == AplicarNormalizar \/ AplicarInversa

SpecNorm == InitNorm /\ [][NextNorm]_vars

-----------------------------------------------------------------------------
(* Vocabulary of the normalisation properties *)

\* the day delta of a time of day moved by an offset
DeltaDe(hora, offset) == (MinutosDe(hora) + offset) \div 1440

\* the days of D moved by delta days around the week
DiasDesplazados(D, delta) == {dayOrder[((IndexOfDay(d) + delta) % 7) + 1] : d \in D}

HoraValida(hora) ==
    /\ Len(hora) = 5
    /\ hora[3] = ":"
    /\ \A i \in {1, 2, 4, 5} : IsDigit(hora[i])
    /\ MinutosDe(hora) \in 0..1439
    /\ ParseInt(SubSeq(hora, 4, 5)) \in 0..59

-----------------------------------------------------------------------------
(* C8: for every offset o in [-720, +840], normalising with o and then
   normalising the result with -o gives back the original hora_inicio,
   hora_fin and set of days. *)
C8_IdaYVuelta ==
    (normBack # <<>> /\ normIn[1].tz_offset \in -720..840)
    => /\ normBack[1].hora_inicio = normIn[1].hora_inicio
       /\ normBack[1].hora_fin = normIn[1].hora_fin
       /\ Range(normBack[1].dias_semana) = Range(normIn[1].dias_semana)

-----------------------------------------------------------------------------
(* C9: for the offsets of real time zones, when the day delta of the start
   differs from the day delta of the end the stored days are the input days
   moved by the start delta together with the input days moved by the end
   delta; when the deltas are equal they are the input days moved by that
   delta.  Local 23:50 to 00:10 at offset -300 gives, for each input day, that
   day (the start is not moved) and the day before it (the end is). *)
C9_UnionDeDias ==
    (normOut # <<>> /\ normIn[1].tz_offset \in -720..840)
    => LET e  == normIn[1]
           D  == Range(e.dias_semana)
           ds == DeltaDe(e.hora_inicio, e.tz_offset)
           de == DeltaDe(e.hora_fin, e.tz_offset)
       IN  /\ Range(normOut[1].dias_semana) =
                IF ds # de THEN DiasDesplazados(D, ds) \cup DiasDesplazados(D, de)
                ELSE DiasDesplazados(D, ds)
           /\ Len(normOut[1].dias_semana) = Cardinality(Range(normOut[1].dias_semana))
           /\ (e.hora_inicio = HoraTexto(23 * 60 + 50) /\ e.hora_fin = HoraTexto(10)
               /\ e.tz_offset = -300)
              => \A d \in D : {d, dayOrder[((IndexOfDay(d) + 6) % 7) + 1]}
                                 \subseteq Range(normOut[1].dias_semana)

\* local 23:50 to 00:10 on Sunday and Monday at offset -300 has been normalised
C9_Witness ==
    /\ normOut # <<>>
    /\ normIn[1].hora_inicio = HoraTexto(23 * 60 + 50)
    /\ normIn[1].hora_fin = HoraTexto(10)
    /\ normIn[1].tz_offset = -300
    /\ normIn[1].dias_semana = <<"D", "L">>
    /\ Range(normOut[1].dias_semana) = {"S", "D", "L"}

-----------------------------------------------------------------------------
(* C10: for every integer offset and every time of day, toUtc gives a day delta
   in {-1, 0, +1} and a time of day in 00:00..23:59, and the normalisation
   loses no day of a valid non-empty day set. *)
C10_DeltaAcotado ==
    normOut # <<>> =>
        /\ normOut[1].startDelta \in {-1, 0, 1}
        /\ normOut[1].endDelta \in {-1, 0, 1}
        /\ HoraValida(normOut[1].hora_inicio)
        /\ HoraValida(normOut[1].hora_fin)
        /\ Cardinality(Range(normOut[1].dias_semana)) >= Cardinality(Range(normIn[1].dias_semana))

\* the parts of C10 taken one by one
C10_SoloHoras ==
    normOut # <<>> => HoraValida(normOut[1].hora_inicio) /\ HoraValida(normOut[1].hora_fin)

C10_SoloDias ==
    normOut # <<>> =>
        Cardinality(Range(normOut[1].dias_semana)) >= Cardinality(Range(normIn[1].dias_semana))

-----------------------------------------------------------------------------
(* Vocabulary of C11 *)

\* the UTC time of day of a local time of day read on a clock `zona` minutes behind UTC
HoraUtc(hora, zona) == HoraTexto((MinutosDe(hora) + zona) % 1440)

\* the values of a request, in UTC: the times moved by the zone of the user, the days
\* moved along with the start and with the end
EnUtc(body) ==
    [dias        |-> DiasDesplazados(Range(body.dias_semana), DeltaDe(body.hora_inicio, body.zona))
                       \cup DiasDesplazados(Range(body.dias_semana), DeltaDe(body.hora_fin, body.zona)),
     hora_inicio |-> HoraUtc(body.hora_inicio, body.zona),
     hora_fin    |-> HoraUtc(body.hora_fin, body.zona)]

\* the row holds the values of the request in UTC
GuardaUtc(h, body) ==
    /\ Range(h.dias_semana) = EnUtc(body).dias
    /\ h.hora_inicio = EnUtc(body).hora_inicio
    /\ h.hora_fin = EnUtc(body).hora_fin

\* the row holds the values of the request as the user gave them
GuardaLocal(h, body) ==
    /\ h.dias_semana = body.dias_semana
    /\ h.hora_inicio = body.hora_inicio
    /\ h.hora_fin = body.hora_fin

\* the rows a step wrote: those of the table after the step whose schedule columns
\* are those of no row before it
FilasEscritas == {h \in horarios' : \A g \in horarios : Columnas(g) # Columnas(h)}

-----------------------------------------------------------------------------
(* C11: every row a POST or PUT of /api/dispositivo/horarios writes holds the
   times and days of some request converted to UTC, and never the local values
   the user gave, whether or not the request carried tz_offset. *)
C11_SiempreUtc ==
    [][\A h \in FilasEscritas :
          /\ \E b \in CuerposHorario : GuardaUtc(h, b)
          /\ \A b \in CuerposHorario : b.zona # 0 => ~GuardaLocal(h, b)]_vars

-----------------------------------------------------------------------------
(* Telemetry ingestion (procesarMensajesMqtt) and the offline sweep
   (marcarOfflineSiNoReportan).  A transaction of a handler keeps its writes
   to itself until COMMIT; every other connection reads the committed table. *)

\* minutes the clock may advance while messages are ingested
MaxMinutos == 7

\* INTERVAL '5 minutes' of marcarOfflineSiNoReportan
MinutosSinReportar == 5

\* table parametros: prt_id -> tipo
parametros == <<"temp", "ph">>

\* registro_valor after the registrations: one row per parameter of the device, holding valorini
ValoresIniciales == [k \in {<<1, 1>>, <<1, 2>>, <<2, 1>>} |-> 0]

\* topic.split('/') of the telemetry topic of a serial: `${topic}/out`
TopicPartes(serial) == <<"mk-208", "VB", serial, "out">>

\* parts[2]
SerieDe(parts) == IF Len(parts) >= 3 THEN parts[3] ELSE "undefined"

\* JSON.parse(message.toString().replace(/'/g, '"')) of the payloads of the model: an
\* object with its own properties, a value that is no object, or the SyntaxError thrown
JSONparse(texto) ==
    CASE texto = "{'temp':21}" -> [forma |-> "objeto", campos |-> [temp |-> 21]]
      [] texto = "{'temp':22,'ph':7,'otro':1}" ->
            [forma |-> "objeto", campos |-> [temp |-> 22, ph |-> 7, otro |-> 1]]
      [] texto = "5" -> [forma |-> "numero"]
      [] texto = "null" -> [forma |-> "null"]
      [] OTHER -> [forma |-> "SyntaxError"]

\* messageJ[tipo] !== undefined, for a messageJ that is not null
TieneCampo(messageJ, tipo) == messageJ.forma = "objeto" /\ tipo \in DOMAIN messageJ.campos

\* ConsultaDispositivo without its WHERE registro.serial = $1
ConsultaDispositivoSinSerial(tablaRegistro, tablaSesion, serie) ==
    {[rgt_id |-> p[1].rgt_id, ses_id |-> p[2].ses_id, frb_token |-> p[2].frb_token] :
        p \in {q \in tablaRegistro \X tablaSesion :
                  q[1].usr_id = q[2].usuario_id /\ q[2].frb_token # "null"}}

\* SELECT registro.rgt_id, sesion.frb_token FROM registro JOIN sesion
\* ON registro.usr_id = sesion.usuario_id
\* WHERE registro.serial = $1 AND sesion.frb_token IS NOT null
\* (one row per session; ses_id tells the rows of two sessions with one token apart)
ConsultaDispositivo(tablaRegistro, tablaSesion, serie) ==
    {[rgt_id |-> p[1].rgt_id, ses_id |-> p[2].ses_id, frb_token |-> p[2].frb_token] :
        p \in {q \in tablaRegistro \X tablaSesion :
                  /\ q[1].usr_id = q[2].usuario_id
                  /\ q[1].serial = serie
                  /\ q[2].frb_token # "null"}}

\* SELECT vlr_id, tipo, parametros.prt_id FROM registro_valor JOIN parametros ...
\* WHERE registro_valor.rgt_id = $1
ConsultaValores(tablaValores, rgt_id) ==
    {[prt_id |-> k[2], tipo |-> parametros[k[2]]] :
        k \in {c \in DOMAIN tablaValores : c[1] = rgt_id}}

\* Pendientes with the loop left (break) at the first row the payload has no value for
PendientesBreak(filas, messageJ) ==
    IF filas = <<>> THEN <<>>
    ELSE IF TieneCampo(messageJ, Head(filas).tipo) THEN filas
    ELSE <<>>

\* the rows of result1 from the next one the loop issues an UPDATE for:
\* if (messageJ[row.tipo] === undefined) continue
RECURSIVE Pendientes(_, _)
Pendientes(filas, messageJ) ==
    IF filas = <<>> THEN <<>>
    ELSE IF TieneCampo(messageJ, Head(filas).tipo) THEN filas
    ELSE Pendientes(Tail(filas), messageJ)

\* AplicarEscritos making visible only one of the writes of the transaction
AplicarEscritosUno(tablaValores, escritos) ==
    [k \in DOMAIN tablaValores |->
        IF escritos # {} /\ (CHOOSE w \in escritos : TRUE)[1] = k
        THEN (CHOOSE w \in escritos : TRUE)[2]
        ELSE tablaValores[k]]

\* COMMIT: the writes <<key, valor>> of the transaction become the committed values
AplicarEscritos(tablaValores, escritos) ==
    [k \in DOMAIN tablaValores |->
        IF \E w \in escritos : w[1] = k
        THEN (CHOOSE w \in escritos : w[1] = k)[2]
        ELSE tablaValores[k]]

\* UPDATE registro_valor SET valor = $3 WHERE rgt_id = $1 AND prt_id = $2, inside the
\* transaction: the writes of the transaction after it
TrasUpdate(escritos, clave, valor) == {w \in escritos : w[1] # clave} \cup {<<clave, valor>>}

\* LimpiarToken clearing the token of every session of the users that hold the token
LimpiarTokenDelUsuario(tablaSesion, token) ==
    {IF \E t \in tablaSesion : t.frb_token = token /\ t.usuario_id = s.usuario_id
     THEN [s EXCEPT !.frb_token = "null"] ELSE s : s \in tablaSesion}

\* UPDATE sesion SET frb_token = NULL WHERE frb_token = $1
LimpiarToken(tablaSesion, token) ==
    {IF s.frb_token = token THEN [s EXCEPT !.frb_token = "null"] ELSE s : s \in tablaSesion}

\* error.code values for which the catch of send() clears the token
CodigosTokenInvalido ==
    {"messaging/registration-token-not-registered", "messaging/invalid-registration-token",
     "messaging/invalid-argument"}

CodigosError == CodigosTokenInvalido \cup {"messaging/internal-error"}

\* the handler of a 'message' event up to its first await (pool.connect)
NuevoManejador(id, mensaje) ==
    [id |-> id, serie |-> SerieDe(mensaje.topic), texto |-> mensaje.texto, pc |-> "connect",
     rgt_id |-> 0, filasDisp |-> {}, filas |-> <<>>, escritos |-> {}]

\* what is remembered of a handler that returned; avisos: the tokens it called send() with
Terminado(h, resultado, avisos) ==
    [id |-> h.id, serie |-> h.serie, texto |-> h.texto, resultado |-> resultado,
     escritos |-> h.escritos, avisos |-> avisos, en |-> reloj]

\* the handler after result1 is known or an UPDATE has returned: at the next UPDATE, or
\* at the COMMIT when the loop is over
EnBucle(h, filas) ==
    [h EXCEPT !.pc = IF filas = <<>> THEN "commit" ELSE "update", !.filas = filas]

\* mqttClient emits 'message' for the next message of the broker
mensajeRecibido ==
    /\ mqttClient
    /\ bandeja # <<>>
    /\ bandeja' = Tail(bandeja)
    /\ entregados' = entregados + 1
    /\ manejadores' = manejadores \cup {NuevoManejador(entregados + 1, Head(bandeja))}
    /\ UNCHANGED <<schedVars, normVars, regVars, sesion, registroValor, terminados, confirmados,
                   envios, barrido>>

\* pool.connect, BEGIN and the deviceResult query have answered: no rows, ROLLBACK and
\* return; JSON.parse throws, the catch block rolls back; otherwise result1 is asked for
ingestaConsulta(h) ==
    /\ h \in manejadores
    /\ h.pc = "connect"
    /\ \E rows \in {ConsultaDispositivo(registro, sesion, h.serie)} :
          IF rows = {}
          THEN /\ manejadores' = manejadores \ {h}
               /\ terminados' = terminados \cup {Terminado(h, "descartado", {})}
          ELSE IF JSONparse(h.texto).forma = "SyntaxError"
          THEN /\ manejadores' = manejadores \ {h}
               /\ terminados' = terminados \cup {Terminado(h, "rollback", {})}
          ELSE /\ manejadores' = (manejadores \ {h}) \cup
                    {[h EXCEPT !.pc = "result1",
                               !.rgt_id = (CHOOSE r \in rows : TRUE).rgt_id,
                               !.filasDisp = rows]}
               /\ UNCHANGED terminados
    /\ UNCHANGED <<schedVars, normVars, regVars, sesion, registroValor, bandeja, entregados,
                   confirmados, envios, barrido>>

\* result1 has answered (asked through the pool: the committed rows, in any order): the
\* loop runs to its first UPDATE; messageJ[row.tipo] of a null messageJ throws
ingestaValores(h) ==
    /\ h \in manejadores
    /\ h.pc = "result1"
    /\ \E filas \in Ordenes(ConsultaValores(registroValor, h.rgt_id)) :
          IF JSONparse(h.texto).forma = "null" /\ filas # <<>>
          THEN /\ manejadores' = manejadores \ {h}
               /\ terminados' = terminados \cup {Terminado(h, "rollback", {})}
          ELSE /\ manejadores' = (manejadores \ {h}) \cup
                    {EnBucle(h, Pendientes(filas, JSONparse(h.texto)))}
               /\ UNCHANGED terminados
    /\ UNCHANGED <<schedVars, normVars, regVars, sesion, registroValor, bandeja, entregados,
                   confirmados, envios, barrido>>

\* an UPDATE registro_valor of the loop has returned: it waited for the row while another
\* transaction held a write to it; the loop runs to its next UPDATE or to the COMMIT
ingestaActualizar(h) ==
    /\ h \in manejadores
    /\ h.pc = "update"
    /\ \E fila \in {Head(h.filas)} :
          /\ \A g \in manejadores \ {h} :
                \A w \in g.escritos : w[1] # <<h.rgt_id, fila.prt_id>>
          /\ manejadores' = (manejadores \ {h}) \cup
                {EnBucle([h EXCEPT !.escritos =
                              TrasUpdate(h.escritos, <<h.rgt_id, fila.prt_id>>,
                                         JSONparse(h.texto).campos[fila.tipo])],
                         Pendientes(Tail(h.filas), JSONparse(h.texto)))}
    /\ UNCHANGED <<schedVars, normVars, regVars, sesion, registroValor, bandeja, entregados,
                   terminados, confirmados, envios, barrido>>

\* COMMIT has returned: send() is called for every row of deviceResult, the connection
\* is released
ingestaCommit(h) ==
    /\ h \in manejadores
    /\ h.pc = "commit"
    /\ registroValor' = AplicarEscritos(registroValor, h.escritos)
    /\ confirmados' = Append(confirmados, [id |-> h.id, rgt_id |-> h.rgt_id,
                                           texto |-> h.texto, en |-> reloj])
    /\ envios' = envios \cup
          {[id |-> h.id, ses_id |-> r.ses_id, frb_token |-> r.frb_token, pc |-> "send"] :
              r \in h.filasDisp}
    /\ manejadores' = manejadores \ {h}
    /\ terminados' = terminados \cup
          {Terminado(h, "commit", {r.frb_token : r \in h.filasDisp})}
    /\ UNCHANGED <<schedVars, normVars, regVars, sesion, bandeja, entregados, barrido>>

\* pool.connect or a statement of the store rejects: the catch block rolls back, the
\* finally block releases the connection
ingestaFalla(h) ==
    /\ h \in manejadores
    /\ manejadores' = manejadores \ {h}
    /\ terminados' = terminados \cup {Terminado(h, "error", {})}
    /\ UNCHANGED <<schedVars, normVars, regVars, sesion, registroValor, bandeja, entregados,
                   confirmados, envios, barrido>>

\* send() resolves
envioEntregado(e) ==
    /\ e \in envios
    /\ e.pc = "send"
    /\ envios' = envios \ {e}
    /\ UNCHANGED <<schedVars, normVars, regVars, sesion, registroValor, bandeja, entregados,
                   manejadores, terminados, confirmados, barrido>>

\* send() rejects with error.code = code: the token is cleared for the codes of an
\* invalid token, the error is logged for the others
envioRechazado(e, code) ==
    /\ e \in envios
    /\ e.pc = "send"
    /\ envios' = IF code \in CodigosTokenInvalido
                 THEN (envios \ {e}) \cup {[e EXCEPT !.pc = "limpiar"]}
                 ELSE envios \ {e}
    /\ UNCHANGED <<schedVars, normVars, regVars, sesion, registroValor, bandeja, entregados,
                   manejadores, terminados, confirmados, barrido>>

\* the UPDATE sesion of the catch of send() has returned
limpiarToken(e) ==
    /\ e \in envios
    /\ e.pc = "limpiar"
    /\ sesion' = LimpiarToken(sesion, e.frb_token)
    /\ envios' = envios \ {e}
    /\ UNCHANGED <<schedVars, normVars, regVars, registroValor, bandeja, entregados, manejadores,
                   terminados, confirmados, barrido>>

\* the UPDATE sesion of the catch of send() rejects: dbError is logged
limpiarTokenFalla(e) ==
    /\ e \in envios
    /\ e.pc = "limpiar"
    /\ envios' = envios \ {e}
    /\ UNCHANGED <<schedVars, normVars, regVars, sesion, registroValor, bandeja, entregados,
                   manejadores, terminados, confirmados, barrido>>

\* the instant the ingestion is observed from
InicioIngesta == Instante(1, 12, 0, 0)

\* a minute passes: the setInterval(marcarOfflineSiNoReportan, 60000) callback is due
PasaMinuto ==
    /\ ~barrido.pendiente
    /\ reloj < InicioIngesta + MaxMinutos * Fases
    /\ reloj' = reloj + Fases
    /\ barrido' = [barrido EXCEPT !.pendiente = TRUE]
    /\ UNCHANGED <<registro, horarios, seqHorarioId, mqttClient, horariosInterval,
                   ejecuciones, historial, postPendientes, escrituras, respuesta, normVars,
                   regVars, sesion,
                   registroValor, bandeja, entregados, manejadores, terminados, confirmados,
                   envios>>

\* BarridoOffline without the test of ultima_conexion
BarridoOfflineSinUmbral(tablaRegistro, ahora) ==
    {IF g.estatus = "online" THEN [g EXCEPT !.estatus = "O"] ELSE g : g \in tablaRegistro}

\* UPDATE registro SET estatus = 'O'
\* WHERE estatus = 'online' AND ultima_conexion < NOW() - INTERVAL '5 minutes'
BarridoOffline(tablaRegistro, ahora) ==
    {IF /\ g.estatus = "online"
        /\ g.ultima_conexion # <<>>
        /\ g.ultima_conexion[1] < ahora - MinutosSinReportar * Fases
     THEN [g EXCEPT !.estatus = "O"] ELSE g : g \in tablaRegistro}

\* marcarOfflineSiNoReportan: registro has the column ultima_conexion, the UPDATE runs
marcarOfflineSiNoReportan ==
    /\ barrido.pendiente
    /\ registro' = BarridoOffline(registro, reloj)
    /\ barrido' = [pendiente |-> FALSE, ultimo |-> <<reloj>>]
    /\ UNCHANGED <<horarios, seqHorarioId, mqttClient, horariosInterval, reloj,
                   ejecuciones, historial, postPendientes, escrituras, respuesta, normVars,
                   regVars, sesion,
                   registroValor, bandeja, entregados, manejadores, terminados, confirmados,
                   envios>>

-----------------------------------------------------------------------------
(* The ingestion on its own: the messages the broker delivers *)

Mensaje(serial, texto) == [topic |-> TopicPartes(serial), texto |-> texto]

Bandejas ==
    { <<Mensaje("WK1", "{'temp':21}"), Mensaje("WK1", "{'temp':22,'ph':7,'otro':1}")>>,
      <<Mensaje("WK1", "{'temp':22,'ph':7,'otro':1}"), Mensaje("WK2", "{'temp':21}")>>,
      <<Mensaje("WK9", "{'temp':21}"), Mensaje("WK1", "{'temp':21}")>>,
      <<Mensaje("WK1", "5"), Mensaje("WK1", "temp=21")>>,
      <<Mensaje("WK1", "null"), Mensaje("WK2", "{'temp':22,'ph':7,'otro':1}")>> }

\* the sessions: the owner of WK1 has two with a token each and the owner of WK2 one
\* without a token; or both owners have one session each, on one phone (one token)
SesionesIniciales ==
    { { [ses_id |-> 1, usuario_id |-> 1, frb_token |-> "tkA"],
        [ses_id |-> 2, usuario_id |-> 1, frb_token |-> "tkB"],
        [ses_id |-> 3, usuario_id |-> 2, frb_token |-> "null"] },
      { [ses_id |-> 1, usuario_id |-> 1, frb_token |-> "tkA"],
        [ses_id |-> 2, usuario_id |-> 2, frb_token |-> "tkA"] } }

\* registro with both columns at their default, or with WK1 last seen two minutes before
\* the ingestion is observed and its estatus 'online'
RegistrosIniciales ==
    { RegistroInicial,
      { FilaRegistro("WK1", "online", <<InicioIngesta - 2 * Fases>>),
        FilaRegistro("WK2", "null", <<>>) } }

InitIngesta ==
    /\ registro \in RegistrosIniciales
    /\ horarios = {}
    /\ seqHorarioId = 1
    /\ mqttClient = TRUE
    /\ horariosInterval = <<>>
    /\ reloj = InicioIngesta
    /\ ejecuciones = {}
    /\ historial = {}
    /\ postPendientes = {}
    /\ escrituras = 0
    /\ respuesta = SinRespuesta
    /\ InitNormIdle
    /\ sesion \in SesionesIniciales
    /\ registroValor = ValoresIniciales
    /\ bandeja \in Bandejas
    /\ entregados = 0
    /\ manejadores = {}
    /\ terminados = {}
    /\ confirmados = <<>>
    /\ envios = {}
    /\ barrido = [pendiente |-> FALSE, ultimo |-> <<>>]
    /\ InitRegIdle

NextIngesta ==
    \/ mensajeRecibido
    \/ \E h \in manejadores : ingestaConsulta(h)
    \/ \E h \in manejadores : ingestaValores(h)
    \/ \E h \in manejadores : ingestaActualizar(h)
    \/ \E h \in manejadores : ingestaCommit(h)
    \/ \E h \in manejadores : ingestaFalla(h)
    \/ \E e \in envios : envioEntregado(e)
    \/ \E e \in envios, code \in CodigosError : envioRechazado(e, code)
    \/ \E e \in envios : limpiarToken(e)
    \/ \E e \in envios : limpiarTokenFalla(e)
    \/ PasaMinuto
    \/ marcarOfflineSiNoReportan

SpecIngesta == InitIngesta /\ [][NextIngesta]_vars

-----------------------------------------------------------------------------
(* Vocabulary of the ingestion properties *)

\* messageJ of a handler or of a committed transaction
MensajeJ(x) == JSONparse(x.texto)

\* the transaction a step committed
UltimoConfirmado == confirmados'[Len(confirmados')]

\* a step in which a handler committed
HayCommit == confirmados' # confirmados

\* registro_valor with every field of the message of transaction c that is the tipo of a
\* parameter of its registration stored in the row of that parameter
ConMensaje(tabla, c) ==
    [k \in DOMAIN tabla |->
        IF k[1] = c.rgt_id /\ TieneCampo(MensajeJ(c), parametros[k[2]])
        THEN MensajeJ(c).campos[parametros[k[2]]]
        ELSE tabla[k]]

\* registro_valor after the messages of the transactions cs, each applied whole, in order
RECURSIVE TrasConfirmados(_, _)
TrasConfirmados(tabla, cs) ==
    IF cs = <<>> THEN tabla ELSE TrasConfirmados(ConMensaje(tabla, Head(cs)), Tail(cs))

\* a step of a send() promise: its settling or the token cleaning that follows
PasoDeEnvio == envios' # envios /\ manejadores' = manejadores

-----------------------------------------------------------------------------
(* C12: when a handler commits, every registro_valor row of its registration
   whose parameter tipo is a key of the payload holds the payload's value for
   that key, every other row is unchanged, and keys of the payload that are the
   tipo of no parameter of the registration do not stop the commit. *)
C12_CamposGuardados ==
    [][HayCommit => registroValor' = ConMensaje(registroValor, UltimoConfirmado)]_vars

\* a payload with two known fields and an unknown one has been committed for WK1
C12_Witness ==
    /\ confirmados # <<>>
    /\ confirmados[Len(confirmados)].texto = "{'temp':22,'ph':7,'otro':1}"
    /\ confirmados[Len(confirmados)].rgt_id = 1
    /\ registroValor[<<1, 1>>] = 22
    /\ registroValor[<<1, 2>>] = 7
    /\ registroValor[<<2, 1>>] = 0

-----------------------------------------------------------------------------
(* C13: every handler of a message with a well-formed payload on the topic of a
   registered serial that met no store failure has committed: it is never
   dropped for another reason, such as the sessions of the owner. *)
C13_RegistradoSeIngiere ==
    \A t \in terminados :
        (Registrado(t.serie) /\ MensajeJ(t).forma = "objeto" /\ t.resultado # "error")
        => t.resultado = "commit"

-----------------------------------------------------------------------------
(* C14: a handler of a message whose serial has no registro row issues no
   write and calls no send(), returns after a rollback (or through the catch
   block), and its steps leave registro and registro_valor as they were. *)
C14_SerieDesconocida ==
    /\ [](\A t \in terminados :
             ~Registrado(t.serie) =>
                 /\ t.resultado \in {"descartado", "error"}
                 /\ t.escritos = {}
                 /\ t.avisos = {})
    /\ [][\A h \in manejadores :
             (~Registrado(h.serie) /\ h \notin manejadores') =>
                 /\ registro' = registro
                 /\ registroValor' = registroValor
                 /\ \E t \in terminados' \ terminados : t.id = h.id]_vars

\* the handler of a message of the unregistered WK9 has rolled back and returned
C14_Witness ==
    \E t \in terminados :
        /\ t.serie = "WK9"
        /\ t.resultado = "descartado"
        /\ registro \in RegistrosIniciales
        /\ registroValor = ValoresIniciales

-----------------------------------------------------------------------------
(* C15: the step in which a handler commits the message of an object leaves the registro row of its
   registration with ultima_conexion at the current time and estatus 'A'. *)
C15_MarcaEnLinea ==
    [][(HayCommit /\ MensajeJ(UltimoConfirmado).forma = "objeto") =>
          \E g \in registro' :
              /\ g.rgt_id = UltimoConfirmado.rgt_id
              /\ g.estatus = "A"
              /\ g.ultima_conexion = <<reloj>>]_vars

-----------------------------------------------------------------------------
(* C16: the committed registro_valor is always the initial table with the
   messages of the committed transactions applied whole, in the order of
   commit: no connection sees part of the updates of a message, and a handler
   that failed after issuing updates leaves none of them. *)
C16_IngestaAtomica ==
    /\ registroValor = TrasConfirmados(ValoresIniciales, confirmados)
    /\ \A t \in terminados :
          t.resultado # "commit" => \A i \in DOMAIN confirmados : confirmados[i].id # t.id

\* a statement of the store failed after the handler had issued an UPDATE, while no
\* transaction had committed
C16_Witness ==
    /\ \E t \in terminados : t.resultado = "error" /\ t.escritos # {}
    /\ confirmados = <<>>
    /\ registroValor = ValoresIniciales

-----------------------------------------------------------------------------
(* C17: a handler of a payload that does not parse to an object returns after
   a rollback and calls send() for no token. *)
C17_MalformadoSeDescarta ==
    \A t \in terminados :
        MensajeJ(t).forma # "objeto" =>
            /\ t.resultado \in {"descartado", "rollback", "error"}
            /\ t.avisos = {}

-----------------------------------------------------------------------------
(* C18: every send() in flight belongs to a handler whose transaction has
   committed; a step of a send() promise leaves registro_valor unchanged; and
   such a step changes sesion only by setting frb_token to NULL in every row
   that holds the rejected token, every other row kept. *)
C18_EnvioTrasCommit ==
    /\ [](\A e \in envios : \E i \in DOMAIN confirmados : confirmados[i].id = e.id)
    /\ [][PasoDeEnvio =>
             /\ registroValor' = registroValor
             /\ \/ sesion' = sesion
                \/ \E e \in envios \ envios' :
                      /\ e.pc = "limpiar"
                      /\ sesion' = {[s EXCEPT !.frb_token =
                                        IF s.frb_token = e.frb_token THEN "null"
                                        ELSE s.frb_token] : s \in sesion}]_vars

\* the token tkA was rejected and cleared: the other session of the owner keeps tkB and
\* the committed value is still there
C18_Witness ==
    /\ [ses_id |-> 1, usuario_id |-> 1, frb_token |-> "null"] \in sesion
    /\ [ses_id |-> 2, usuario_id |-> 1, frb_token |-> "tkB"] \in sesion
    /\ confirmados # <<>>
    /\ envios = {}
    /\ registroValor[<<1, 1>>] = 21

-----------------------------------------------------------------------------
(* C19: once the handlers of two messages of one registration have both
   committed and nothing is in progress, every field both payloads carry holds
   the value of the message delivered second. *)
C19_OrdenDeEntrega ==
    (bandeja = <<>> /\ manejadores = {} /\ Len(confirmados) = 2)
    => \A i, j \in DOMAIN confirmados :
          (confirmados[i].id < confirmados[j].id /\ confirmados[i].rgt_id = confirmados[j].rgt_id)
          => \A k \in DOMAIN registroValor :
                (/\ k[1] = confirmados[j].rgt_id
                 /\ TieneCampo(MensajeJ(confirmados[i]), parametros[k[2]])
                 /\ TieneCampo(MensajeJ(confirmados[j]), parametros[k[2]]))
                => registroValor[k] = MensajeJ(confirmados[j]).campos[parametros[k[2]]]

-----------------------------------------------------------------------------
(* C20: a registration whose last ingested message was committed more than
   5 minutes before a run of marcarOfflineSiNoReportan has estatus 'O' after
   that run. *)
C20_SinReportarQuedaOffline ==
    \A i \in DOMAIN confirmados :
        (/\ MensajeJ(confirmados[i]).forma = "objeto"
         /\ \A j \in DOMAIN confirmados : j > i => confirmados[j].rgt_id # confirmados[i].rgt_id
         /\ barrido.ultimo # <<>>
         /\ ~barrido.pendiente
         /\ barrido.ultimo[1] > confirmados[i].en + MinutosSinReportar * Fases)
        => \E g \in registro : g.rgt_id = confirmados[i].rgt_id /\ g.estatus = "O"

-----------------------------------------------------------------------------
(* Vocabulary of C21 *)

\* a step that is a run of marcarOfflineSiNoReportan
PasoDeBarrido == barrido.pendiente /\ ~barrido'.pendiente

\* the registration is online and was last seen more than 5 minutes before instant t
EnLineaSinReportar(g, t) ==
    /\ g.estatus = "online"
    /\ g.ultima_conexion # <<>>
    /\ g.ultima_conexion[1] < t - MinutosSinReportar * Fases

-----------------------------------------------------------------------------
(* C21: a run of marcarOfflineSiNoReportan sets estatus to 'O' in the
   registrations that are online and were last seen more than 5 minutes ago,
   leaves every other registration as it was, and changes no ultima_conexion,
   no registro_valor row and no schedule. *)
C21_BarridoSoloVencidos ==
    [][PasoDeBarrido =>
          /\ registro' = {IF EnLineaSinReportar(g, reloj) THEN [g EXCEPT !.estatus = "O"] ELSE g :
                             g \in registro}
          /\ \A g \in registro : \E n \in registro' :
                n.rgt_id = g.rgt_id /\ n.ultima_conexion = g.ultima_conexion
          /\ registroValor' = registroValor
          /\ horarios' = horarios]_vars

\* WK1, online and last seen at 11:58, has been set offline by a run; WK2, never online,
\* is as it was
C21_Witness ==
    /\ FilaRegistro("WK1", "O", <<InicioIngesta - 2 * Fases>>) \in registro
    /\ FilaRegistro("WK2", "null", <<>>) \in registro
    /\ barrido.ultimo # <<>>

-----------------------------------------------------------------------------
(* C29: once a message of a registered device has been committed, the handler
   of every later well-formed message of that device that meets no store
   failure commits too, whatever has happened to the tokens of the sessions of
   the owner in between. *)
C29_SigueIngiriendo ==
    \A t \in terminados :
        (/\ Registrado(t.serie)
         /\ MensajeJ(t).forma = "objeto"
         /\ t.resultado # "error"
         /\ \E i \in DOMAIN confirmados :
               /\ confirmados[i].id < t.id
               /\ \E g \in registro : g.serial = t.serie /\ g.rgt_id = confirmados[i].rgt_id)
        => t.resultado = "commit"


-----------------------------------------------------------------------------
(* Vocabulary of C23 *)

\* positions in r.publicados of the commands published for schedule id
ComandosDe(r, id) == {i \in DOMAIN r.publicados : r.publicados[i].horario_id = id}

\* instant t is a boundary of schedule S on one of its days
EsLimite(S, t) == EsInicio(S, t) \/ EsFin(S, t)

\* two distinct active schedules of one registered serial, read by execution r, that
\* both have a boundary at the instant r read the clock
Coinciden(r, S1, S2) ==
    /\ S1 \in ActivosLeidos(r) /\ S2 \in ActivosLeidos(r)
    /\ S1.horario_id # S2.horario_id
    /\ S1.serial = S2.serial
    /\ EsLimite(S1, r.ahora[1]) /\ EsLimite(S2, r.ahora[1])

-----------------------------------------------------------------------------
(* C23: when two active schedules of one serial have a boundary at the day and
   minute an execution reads the clock, the execution publishes for each of
   them the command of each of its boundaries exactly once (turn-on at its
   start, turn-off at its end), whatever the other schedule does; when both
   have a start different from their end that is one command for each, two
   in all for the pair. *)
C23_LimitesCoincidentes ==
    \A r \in Ticks :
        \A S1 \in r.vista, S2 \in r.vista :
            Coinciden(r, S1, S2) =>
                /\ \A S \in {S1, S2} :
                      /\ Cardinality(PublicadosPor(r, S.horario_id, messageInicio))
                            = IF EsInicio(S, r.ahora[1]) THEN 1 ELSE 0
                      /\ Cardinality(PublicadosPor(r, S.horario_id, messageFin))
                            = IF EsFin(S, r.ahora[1]) THEN 1 ELSE 0
                /\ (~DuracionCero(S1) /\ ~DuracionCero(S2))
                      => /\ Cardinality(ComandosDe(r, S1.horario_id)) = 1
                         /\ Cardinality(ComandosDe(r, S2.horario_id)) = 1
                         /\ Cardinality(ComandosDe(r, S1.horario_id)
                                          \cup ComandosDe(r, S2.horario_id)) = 2

\* an execution read the clock at the minute one schedule of a serial starts and another
\* schedule of the same serial ends, and published both commands
C23_Witness ==
    \E r \in Ticks :
        \E S1 \in r.vista, S2 \in r.vista :
            /\ Coinciden(r, S1, S2)
            /\ ~DuracionCero(S1) /\ ~DuracionCero(S2)
            /\ EsInicio(S1, r.ahora[1]) /\ EsFin(S2, r.ahora[1])
            /\ Cardinality(PublicadosPor(r, S1.horario_id, messageInicio)) = 1
            /\ Cardinality(PublicadosPor(r, S2.horario_id, messageFin)) = 1
            /\ Len(r.publicados) = 2

\* the same with two schedules that start at the same minute
C23_WitnessInicios ==
    \E r \in Ticks :
        \E S1 \in r.vista, S2 \in r.vista :
            /\ Coinciden(r, S1, S2)
            /\ ~DuracionCero(S1) /\ ~DuracionCero(S2)
            /\ EsInicio(S1, r.ahora[1]) /\ EsInicio(S2, r.ahora[1])
            /\ Len(r.publicados) = 2

-----------------------------------------------------------------------------
(* Vocabulary of C25 and C26 *)

\* a step in which a schedule handler sends its answer
PasoDeRespuesta == respuesta' # respuesta

\* a step that answers a POST /api/dispositivo/horarios whose body has activo = false
PasoPostInactivo ==
    /\ PasoDeRespuesta
    /\ respuesta'.ruta = "POST horarios"
    /\ respuesta'.peticion.activo = FALSE

\* a step that is the UPDATE ... WHERE serial = $1 of the POST that inserted p
PasoActivar(p) == p \in postPendientes /\ p \notin postPendientes'

-----------------------------------------------------------------------------
(* C25: a POST /api/dispositivo/horarios whose body has activo = false, with
   or without a horario_id, leaves the table horarios and the sequence of its
   ids exactly as they were and answers 200 with horario_id null. *)
C25_PostInactivoNoEscribe ==
    [][PasoPostInactivo =>
          /\ horarios' = horarios
          /\ seqHorarioId' = seqHorarioId
          /\ postPendientes' = postPendientes
          /\ respuesta'.status = 200
          /\ respuesta'.json = [horario_id |-> <<>>]]_vars

\* the request named an active schedule of the table, which is still there and active
C25_Witness ==
    /\ respuesta.ruta = "POST horarios"
    /\ respuesta.peticion.activo = FALSE
    /\ respuesta.peticion.horario_id # <<>>
    /\ \E h \in horarios : <<h.horario_id>> = respuesta.peticion.horario_id /\ h.activo = TRUE
    /\ respuesta.status = 200

\* the request named no schedule
C25_WitnessSinId ==
    /\ respuesta.ruta = "POST horarios"
    /\ respuesta.peticion.activo = FALSE
    /\ respuesta.peticion.horario_id = <<>>
    /\ horarios # {}

-----------------------------------------------------------------------------
(* C26: the UPDATE that follows the INSERT of a POST /api/dispositivo/horarios
   with no horario_id and activo = true leaves every schedule of the serial
   of the request with activo = true, whatever it was before, changes nothing
   else in them, leaves the schedules of every other serial as they were, and
   the request is answered 201 with the id of the inserted schedule. *)
C26_PostActivaTodos ==
    [][\A p \in postPendientes :
          PasoActivar(p) =>
              /\ horarios' = {IF h.serial = p.serial THEN [h EXCEPT !.activo = TRUE] ELSE h :
                                 h \in horarios}
              /\ \A h \in horarios' : h.serial = p.serial => h.activo = TRUE
              /\ \A h \in horarios : h.serial # p.serial => h \in horarios'
              /\ respuesta'.status = 201
              /\ respuesta'.json = [horario_id |-> <<p.horario_id>>]]_vars

\* the schedule of WK1 that was inactive before the request is active after it, next to
\* the schedule the request inserted
C26_Witness ==
    /\ respuesta.ruta = "POST horarios"
    /\ respuesta.status = 201
    /\ \E h \in horarios, n \in horarios :
          /\ h.horario_id = 1 /\ n.horario_id = 2
          /\ respuesta.json = [horario_id |-> <<2>>]
          /\ h.serial = n.serial
          /\ h.activo = TRUE
          /\ [h EXCEPT !.activo = FALSE] \in UNION HorariosIniciales
          /\ h \notin UNION HorariosIniciales


-----------------------------------------------------------------------------
(* The scheduler with a broker connection whose publish may fail: each
   mqttClient.publish of an execution either hands the command over, or has
   its callback called with an error, or throws. *)

ResultadosPublish == {"enviado", "error", "lanzado"}

\* what becomes of each command of the loops when the publish calls behave as `res` says:
\* the callback only logs, a throw leaves both loops for the catch block of the function
Intentos(comandos, res) ==
    [i \in DOMAIN comandos |->
        [comando |-> comandos[i],
         resultado |-> IF \E k \in 1..(i - 1) : res[k] = "lanzado" THEN "omitido" ELSE res[i]]]

\* the commands the broker client accepted
Enviados(intentos) ==
    LET Aceptado(x) == x.resultado = "enviado"
        sel         == SelectSeq(intentos, Aceptado)
    IN  [i \in DOMAIN sel |-> sel[i].comando]

\* ejecutarHorarios after the query, the publish calls failing or not
ejecutarHorariosPublicar(e) ==
    /\ e \in ejecuciones
    /\ e.pc = "query"
    /\ ejecuciones' = ejecuciones \ {e}
    /\ \E res \in [DOMAIN Publicaciones(e.rows, reloj) -> ResultadosPublish] :
          historial' = historial \cup
              {[inicio |-> e.inicio, rows |-> e.rows, vista |-> e.vista,
                ahora |-> IF e.rows = <<>> THEN <<>> ELSE <<reloj>>,
                intentos |-> Intentos(Publicaciones(e.rows, reloj), res),
                publicados |-> Enviados(Intentos(Publicaciones(e.rows, reloj), res))]}
    /\ UNCHANGED <<registro, horarios, seqHorarioId, mqttClient, horariosInterval, reloj,
                   postPendientes, escrituras, respuesta, normVars, ingVars, regVars>>

NextFallos ==
    \/ iniciarEjecucionHorarios
    \/ IntervaloHorarios
    \/ AvanzarReloj
    \/ \E e \in ejecuciones : ejecutarHorariosConsulta(e)
    \/ \E e \in ejecuciones : ejecutarHorariosPublicar(e)
    \/ \E e \in ejecuciones : ejecutarHorariosError(e)

SpecFallos == Init /\ [][NextFallos]_vars

-----------------------------------------------------------------------------
(* C22: when a publish of an execution fails, through its callback or by
   throwing, the execution still calls publish for every other command due
   at the instant it read the clock. *)
C22_FalloDeUnSoloComando ==
    \A r \in historial :
        \A i \in DOMAIN r.intentos :
            r.intentos[i].resultado \in {"error", "lanzado"}
            => \A j \in DOMAIN r.intentos : j # i => r.intentos[j].resultado # "omitido"


-----------------------------------------------------------------------------
(* One schedule over a week: a POST /api/dispositivo/horarios has stored one
   active schedule of WK1, and from a Sunday 00:00 UTC on the interval of
   iniciarEjecucionHorarios runs ejecutarHorarios once in every minute. *)

\* days of executions, from InicioSemana on
MaxDiasReloj == 8

TodosLosDias == <<"D", "L", "M", "X", "J", "V", "S">>

\* the bodies of the request: days, local start and end, and the offset sent with them
CuerposSemana ==
    { CuerpoDe(d, HoraTexto(v[1]), HoraTexto(v[2]), v[3]) :
        d \in {<<"L">>, <<"L", "X">>, TodosLosDias},
        v \in { <<10 * 60, 11 * 60, <<60>>>>,
                <<20 * 60, 22 * 60, <<180>>>>,
                <<22 * 60, 23 * 60 + 30, <<120>>>>,
                <<1 * 60, 3 * 60, <<-120>>>>,
                <<23 * 60, 1 * 60, <<>>>> } }

InicioSemana == Instante(0, 0, 0, 0)

InitSemana ==
    /\ registro = RegistroInicial
    /\ normIn \in {<<b>> : b \in CuerposSemana}
    /\ horarios = {FilaGuardada(1, "WK1", normIn[1], TRUE)}
    /\ seqHorarioId = 2
    /\ mqttClient = TRUE
    /\ horariosInterval = <<Fases>>
    /\ reloj = InicioSemana
    /\ ejecuciones = {}
    /\ historial = {}
    /\ postPendientes = {}
    /\ escrituras = 1
    /\ respuesta = Respuesta("POST horarios", <<>>, TRUE, 201, [horario_id |-> <<1>>])
    /\ normOut = <<>>
    /\ normBack = <<>>
    /\ InitIngIdle
    /\ InitRegIdle

\* what an execution that got `rows` and read the clock at t adds to the record of the
\* executions that published
RegistroDe(rows, t) ==
    IF Publicaciones(rows, t) = <<>> THEN {}
    ELSE {[inicio |-> t, rows |-> rows, vista |-> horarios, ahora |-> <<t>>,
           publicados |-> Publicaciones(rows, t)]}

\* the setInterval callback of one minute: ejecutarHorarios from its query to its last
\* publish, within the minute it started in
ejecutarHorariosEnElMinuto ==
    /\ reloj < InicioSemana + MaxDiasReloj * 1440 * Fases
    /\ \E rows \in Ordenes(ConsultaHorariosActivos(horarios, registro)) :
          historial' = historial \cup RegistroDe(rows, reloj)
    /\ reloj' = reloj + Fases
    /\ UNCHANGED <<registro, horarios, seqHorarioId, mqttClient, horariosInterval, ejecuciones,
                   postPendientes, escrituras, respuesta, normVars, ingVars, regVars>>

NextSemana == ejecutarHorariosEnElMinuto

SpecSemana == InitSemana /\ [][NextSemana]_vars

-----------------------------------------------------------------------------
(* Vocabulary of C27 and C28 *)

\* the executions that published the command msg for schedule id
TicksCon(id, msg) == {r \in Ticks : PublicadosPor(r, id, msg) # {}}

\* the first instant after t whose minute of the day is that of hora
SiguienteHora(t, hora) ==
    IF MinutosDe(hora) > MinutoDelDia(t)
    THEN t + (MinutosDe(hora) - MinutoDelDia(t)) * Fases
    ELSE t + (MinutosDe(hora) - MinutoDelDia(t) + 1440) * Fases

\* weekday (0 = Sunday) and minute of the day of an instant
DiaYMinuto(t) == <<DiaSemana(t), MinutoDelDia(t)>>

\* weekday and minute, in UTC, of the local time `hora` of local day d, for a clock that is
\* `offset` minutes behind UTC
ImagenUtc(d, hora, offset) ==
    LET total == IndexOfDay(d) * 1440 + MinutosDe(hora) + offset
    IN  <<(total \div 1440) % 7, total % 1440>>

\* every minute of the week has had its execution
SemanaCompleta == reloj >= InicioSemana + 7 * 1440 * Fases

-----------------------------------------------------------------------------
(* C27: every turn-on command published for an active schedule whose start
   differs from its end is followed, at the next minute of the clock equal to
   its hora_fin (less than 24 hours later), by a turn-off command for the same
   schedule, once the executions of those 24 hours have run. *)
C27_VentanaSeCierra ==
    \A S \in horarios :
        (S.activo = TRUE /\ ~DuracionCero(S)) =>
            \A r \in TicksCon(S.horario_id, messageInicio) :
                LET fin == SiguienteHora(r.ahora[1], S.hora_fin)
                IN  reloj > fin =>
                        \E r2 \in TicksCon(S.horario_id, messageFin) : r2.ahora[1] = fin

-----------------------------------------------------------------------------
(* C28: for a local window stored with an offset, the weekday and minute of
   every turn-on published is the UTC image of the local start on a selected
   day, the weekday and minute of every turn-off published is the UTC image
   of the local end on a selected day, and once a whole week of executions
   has run every such image has had its command. *)
C28_InstantesPreservados ==
    normIn[1].tz_offset # <<>> =>
        LET b       == normIn[1]
            inicios == {ImagenUtc(d, b.hora_inicio, b.tz_offset[1]) : d \in Range(b.dias_semana)}
            fines   == {ImagenUtc(d, b.hora_fin, b.tz_offset[1]) : d \in Range(b.dias_semana)}
            enc     == {DiaYMinuto(r.ahora[1]) : r \in TicksCon(1, messageInicio)}
            apa     == {DiaYMinuto(r.ahora[1]) : r \in TicksCon(1, messageFin)}
        IN  /\ enc \subseteq inicios
            /\ apa \subseteq fines
            /\ SemanaCompleta => (enc = inicios /\ apa = fines)


-----------------------------------------------------------------------------
(* Device registration, telemetry and schedule creation over the connection
   pool.  A connection keeps the writes of its open transaction to itself
   until COMMIT; a statement on a connection without a transaction is
   committed at once; release returns the connection to the pool as it is. *)

\* table dispositivo
dispositivo ==
    { [dsp_id |-> 1, seriestype |-> "WK", modelo |-> "mk-208", abreviatura |-> "VB"],
      [dsp_id |-> 2, seriestype |-> "WT", modelo |-> "mk-208", abreviatura |-> "VB"] }

\* table dispositivo_parametro joined with parametros
dispositivoParametro ==
    { [dsp_id |-> 1, prt_id |-> 1, tipo |-> parametros[1], valorini |-> 0],
      [dsp_id |-> 1, prt_id |-> 2, tipo |-> parametros[2], valorini |-> 0],
      [dsp_id |-> 2, prt_id |-> 1, tipo |-> parametros[1], valorini |-> 0] }

\* req.body of POST /api/dispositivo/registro
CuerposRegistro ==
    { [tipo |-> "WK", serial |-> "WK1", userId |-> 1],
      [tipo |-> "WT", serial |-> "WK2", userId |-> 1],
      [tipo |-> "ZZ", serial |-> "WK2", userId |-> 1] }

\* payloads of the telemetry messages
TextosTelemetria == {"{'temp':21}", "{'temp':22,'ph':7,'otro':1}"}

\* req.body of POST /api/dispositivo/horarios, without horario_id and with activo = true
CuerposHorarioNuevo == {b \in CuerposHorario : b.activo = TRUE /\ b.tz_offset = <<>>}

\* the committed tables the handlers of this model write
Tablas == [registro |-> registro, registroValor |-> registroValor, horarios |-> horarios]

\* the tables T after the statement w
Aplicar(T, w) ==
    CASE w.op = "INSERT registro" -> [T EXCEPT !.registro = @ \cup {w.fila}]
      [] w.op = "INSERT registro_valor" -> [T EXCEPT !.registroValor = @ \cup {w.fila}]
      [] w.op = "UPDATE registro_valor" ->
            [T EXCEPT !.registroValor =
                {IF v.rgt_id = w.rgt_id /\ v.prt_id = w.prt_id
                 THEN [v EXCEPT !.valor = w.valor] ELSE v : v \in T.registroValor}]
      [] w.op = "INSERT horarios" -> [T EXCEPT !.horarios = @ \cup {w.fila}]
      [] w.op = "UPDATE horarios" ->
            [T EXCEPT !.horarios =
                {IF h.serial = w.serial THEN [h EXCEPT !.activo = TRUE] ELSE h :
                    h \in T.horarios}]

RECURSIVE AplicarTodos(_, _)
AplicarTodos(T, ws) ==
    IF ws = <<>> THEN T ELSE AplicarTodos(Aplicar(T, Head(ws)), Tail(ws))

\* what a statement on connection c reads: the committed rows and the writes of its own
\* transaction
Visibles(c) == AplicarTodos(Tablas, conexiones[c].escritos)

\* the tables become T
Guardar(T) ==
    /\ registro' = T.registro
    /\ registroValor' = T.registroValor
    /\ horarios' = T.horarios

\* client.query of a writing statement w on connection c: kept by the open transaction,
\* or committed at once when there is none
TrasEjecutar(c, w) ==
    IF conexiones[c].transaccion
    THEN [con |-> [conexiones EXCEPT ![c].escritos = Append(@, w)], tablas |-> Tablas]
    ELSE [con |-> conexiones, tablas |-> Aplicar(Tablas, w)]

\* client.query('BEGIN'): a transaction that is already open goes on
Begin(con, c) == [con EXCEPT ![c].transaccion = TRUE]

\* client.query('ROLLBACK')
Rollback(con, c) == [con EXCEPT ![c].transaccion = FALSE, ![c].escritos = <<>>]

\* client.query('COMMIT'): the connection afterwards (its writes go to the tables)
Commit(con, c) == [con EXCEPT ![c].transaccion = FALSE, ![c].escritos = <<>>]

\* client.release(): the connection returns to the pool in the state it is in
Release(con, c) == [con EXCEPT ![c].libre = TRUE]

\* pool.connect(): an idle connection, as it was released
Conectar(con, c) == [con EXCEPT ![c].libre = FALSE]

Iniciadas == Cardinality(peticiones) + Cardinality(terminados)

HayPeticion == Iniciadas < MaxPeticiones

\* the handler goes on as q after an await
Sigue(p, q) ==
    /\ peticiones' = (peticiones \ {p}) \cup {q}
    /\ UNCHANGED terminados

\* the handler returns
Termina(p, fin) ==
    /\ peticiones' = peticiones \ {p}
    /\ terminados' = terminados \cup {fin}

\* the variables no handler of this model writes
fueraDeRegistro ==
    <<mqttClient, horariosInterval, reloj, ejecuciones, historial, postPendientes, escrituras,
      respuesta, normVars, sesion, bandeja, entregados, manejadores, confirmados, envios,
      barrido>>

\* SELECT * FROM dispositivo WHERE dispositivo.seriestype = $1
ConsultaTipo(tipoBusqueda) == {d \in dispositivo : d.seriestype = tipoBusqueda}

\* SELECT * FROM dispositivo_parametro JOIN parametros ... WHERE dispositivo_parametro.dsp_id = $1
ConsultaParametros(dsp_id) == {d \in dispositivoParametro : d.dsp_id = dsp_id}

\* the row of INSERT INTO registro (usr_id, dsp_id, topic, nombre_registrado, serial, ...)
FilaRegistroNueva(rgt_id, body, dsp) ==
    [rgt_id |-> rgt_id, usr_id |-> body.userId, dsp_id |-> dsp.dsp_id, serial |-> body.serial,
     topic |-> dsp.modelo \o "/" \o dsp.abreviatura \o "/" \o body.serial,
     estatus |-> "null", ultima_conexion |-> <<>>]

\* FilaValor with the parameter of the first row of the template for every row
FilaValorPrimerParametro(vlr_id, rgt_id, row) ==
    [vlr_id |-> vlr_id, rgt_id |-> rgt_id, prt_id |-> 1, valor |-> row.valorini]

\* the row of INSERT INTO registro_valor (rgt_id, prt_id, valor) VALUES ($1, $2, $3)
\* with [rgt_id, row.prt_id, row.valorini]
FilaValor(vlr_id, rgt_id, row) ==
    [vlr_id |-> vlr_id, rgt_id |-> rgt_id, prt_id |-> row.prt_id, valor |-> row.valorini]

\* another transaction holds an uncommitted row of registro with this serial: the INSERT
\* waits for it
SerialEnEspera(c, serial) ==
    \E o \in DOMAIN conexiones :
        /\ o # c
        /\ \E i \in DOMAIN conexiones[o].escritos :
              /\ conexiones[o].escritos[i].op = "INSERT registro"
              /\ conexiones[o].escritos[i].fila.serial = serial

\* POST /api/dispositivo/registro: pool.connect() and BEGIN
registroConnect(body) ==
    /\ HayPeticion
    /\ \E c \in DOMAIN conexiones :
          /\ conexiones[c].libre
          /\ conexiones' = Begin(Conectar(conexiones, c), c)
          /\ peticiones' = peticiones \cup
                {[id |-> Iniciadas + 1, clase |-> "registro", body |-> body, con |-> c,
                  pc |-> "dispositivo"]}
    /\ UNCHANGED <<registro, registroValor, horarios, seqHorarioId, secuencias, terminados,
                   fueraDeRegistro>>

\* the query of the device type through the pool; no row: 409, and the finally block
\* releases the client
registroDispositivo(p) ==
    /\ p \in peticiones /\ p.clase = "registro" /\ p.pc = "dispositivo"
    /\ IF ConsultaTipo(p.body.tipo) = {}
       THEN /\ conexiones' = Release(conexiones, p.con)
            /\ Termina(p, [id |-> p.id, clase |-> p.clase, con |-> p.con, status |-> 409,
                           causa |-> "tipo"])
       ELSE /\ \E dsp \in ConsultaTipo(p.body.tipo) :
                  Sigue(p, [id |-> p.id, clase |-> p.clase, body |-> p.body, con |-> p.con,
                            pc |-> "insert", dsp |-> dsp])
            /\ UNCHANGED conexiones
    /\ UNCHANGED <<registro, registroValor, horarios, seqHorarioId, secuencias, fueraDeRegistro>>

\* INSERT INTO registro ... returning rgt_id; a serial that is registered already raises
\* 23505: ROLLBACK, 409, release
registroInsert(p) ==
    /\ p \in peticiones /\ p.clase = "registro" /\ p.pc = "insert"
    /\ ~SerialEnEspera(p.con, p.body.serial)
    /\ secuencias' = [secuencias EXCEPT !.rgt_id = @ + 1]
    /\ IF \E g \in Visibles(p.con).registro : g.serial = p.body.serial
       THEN /\ conexiones' = Release(Rollback(conexiones, p.con), p.con)
            /\ Termina(p, [id |-> p.id, clase |-> p.clase, con |-> p.con, status |-> 409,
                           causa |-> "23505"])
       ELSE /\ conexiones' =
                  TrasEjecutar(p.con, [op |-> "INSERT registro",
                                       fila |-> FilaRegistroNueva(secuencias.rgt_id, p.body,
                                                                  p.dsp)]).con
            /\ Sigue(p, [id |-> p.id, clase |-> p.clase, body |-> p.body, con |-> p.con,
                         pc |-> "parametros", dsp |-> p.dsp, rgt_id |-> secuencias.rgt_id])
    /\ UNCHANGED <<registro, registroValor, horarios, seqHorarioId, fueraDeRegistro>>

\* result1: the parameters of the device type, through the pool, in the order the store
\* returns them
registroParametros(p) ==
    /\ p \in peticiones /\ p.clase = "registro" /\ p.pc = "parametros"
    /\ \E filas \in Ordenes(ConsultaParametros(p.dsp.dsp_id)) :
          Sigue(p, [id |-> p.id, clase |-> p.clase, body |-> p.body, con |-> p.con,
                    pc |-> "valores", dsp |-> p.dsp, rgt_id |-> p.rgt_id, filas |-> filas])
    /\ UNCHANGED <<registro, registroValor, horarios, seqHorarioId, conexiones, secuencias,
                   fueraDeRegistro>>

\* one turn of for (const row of result1.rows): INSERT INTO registro_valor
registroValorInsert(p) ==
    /\ p \in peticiones /\ p.clase = "registro" /\ p.pc = "valores"
    /\ p.filas # <<>>
    /\ conexiones' =
          TrasEjecutar(p.con, [op |-> "INSERT registro_valor",
                               fila |-> FilaValor(secuencias.vlr_id, p.rgt_id, Head(p.filas))]).con
    /\ secuencias' = [secuencias EXCEPT !.vlr_id = @ + 1]
    /\ Sigue(p, [p EXCEPT !.filas = Tail(p.filas)])
    /\ UNCHANGED <<registro, registroValor, horarios, seqHorarioId, fueraDeRegistro>>

\* COMMIT after the loop, the subscription, 201, release
registroCommit(p) ==
    /\ p \in peticiones /\ p.clase = "registro" /\ p.pc = "valores"
    /\ p.filas = <<>>
    /\ Guardar(Visibles(p.con))
    /\ conexiones' = Release(Commit(conexiones, p.con), p.con)
    /\ Termina(p, [id |-> p.id, clase |-> p.clase, con |-> p.con, status |-> 201,
                   causa |-> "registrado"])
    /\ UNCHANGED <<seqHorarioId, secuencias, fueraDeRegistro>>

\* a query of the handler rejects: the catch block rolls back, 500, release
registroFalla(p) ==
    /\ p \in peticiones /\ p.clase = "registro" /\ p.pc \in {"insert", "parametros", "valores"}
    /\ conexiones' = Release(Rollback(conexiones, p.con), p.con)
    /\ Termina(p, [id |-> p.id, clase |-> p.clase, con |-> p.con, status |-> 500,
                   causa |-> "error"])
    /\ UNCHANGED <<registro, registroValor, horarios, seqHorarioId, secuencias, fueraDeRegistro>>

\* the 'message' handler: pool.connect() and BEGIN
telemetriaConnect(serie, texto) ==
    /\ HayPeticion
    /\ \E c \in DOMAIN conexiones :
          /\ conexiones[c].libre
          /\ conexiones' = Begin(Conectar(conexiones, c), c)
          /\ peticiones' = peticiones \cup
                {[id |-> Iniciadas + 1, clase |-> "telemetria", serie |-> serie,
                  texto |-> texto, con |-> c, pc |-> "dispositivo"]}
    /\ UNCHANGED <<registro, registroValor, horarios, seqHorarioId, secuencias, terminados,
                   fueraDeRegistro>>

\* deviceResult through dbClient; no row: ROLLBACK, return, release
telemetriaDispositivo(p) ==
    /\ p \in peticiones /\ p.clase = "telemetria" /\ p.pc = "dispositivo"
    /\ IF ConsultaDispositivo(Visibles(p.con).registro, sesion, p.serie) = {}
       THEN /\ conexiones' = Release(Rollback(conexiones, p.con), p.con)
            /\ Termina(p, [id |-> p.id, clase |-> p.clase, con |-> p.con, status |-> 0,
                           causa |-> "descartado"])
       ELSE /\ \E fila \in ConsultaDispositivo(Visibles(p.con).registro, sesion, p.serie) :
                  Sigue(p, [id |-> p.id, clase |-> p.clase, serie |-> p.serie,
                            texto |-> p.texto, con |-> p.con, pc |-> "valores",
                            rgt_id |-> fila.rgt_id])
            /\ UNCHANGED conexiones
    /\ UNCHANGED <<registro, registroValor, horarios, seqHorarioId, secuencias, fueraDeRegistro>>

\* SELECT vlr_id, tipo, parametros.prt_id FROM registro_valor JOIN parametros ...
\* WHERE registro_valor.rgt_id = $1, on the rows of the registration model
ConsultaValoresFilas(tablaValores, rgt_id) ==
    {[vlr_id |-> v.vlr_id, prt_id |-> v.prt_id, tipo |-> parametros[v.prt_id]] :
        v \in {x \in tablaValores : x.rgt_id = rgt_id}}

\* the UPDATE statements of for (const row of result1.rows), in the order of the rows
RECURSIVE Actualizaciones(_, _, _)
Actualizaciones(filas, rgt_id, messageJ) ==
    IF filas = <<>> THEN <<>>
    ELSE IF ~TieneCampo(messageJ, Head(filas).tipo)
    THEN Actualizaciones(Tail(filas), rgt_id, messageJ)
    ELSE <<[op |-> "UPDATE registro_valor", rgt_id |-> rgt_id, prt_id |-> Head(filas).prt_id,
            valor |-> messageJ.campos[Head(filas).tipo]]>>
         \o Actualizaciones(Tail(filas), rgt_id, messageJ)

\* result1 through the pool and the loop of UPDATE registro_valor through dbClient
telemetriaActualizar(p) ==
    /\ p \in peticiones /\ p.clase = "telemetria" /\ p.pc = "valores"
    /\ \E filas \in Ordenes(ConsultaValoresFilas(registroValor, p.rgt_id)) :
          conexiones' = [conexiones EXCEPT ![p.con].escritos =
                            @ \o Actualizaciones(filas, p.rgt_id, JSONparse(p.texto))]
    /\ Sigue(p, [p EXCEPT !.pc = "commit"])
    /\ UNCHANGED <<registro, registroValor, horarios, seqHorarioId, secuencias, fueraDeRegistro>>

\* COMMIT, release
telemetriaCommit(p) ==
    /\ p \in peticiones /\ p.clase = "telemetria" /\ p.pc = "commit"
    /\ Guardar(Visibles(p.con))
    /\ conexiones' = Release(Commit(conexiones, p.con), p.con)
    /\ Termina(p, [id |-> p.id, clase |-> p.clase, con |-> p.con, status |-> 0,
                   causa |-> "commit"])
    /\ UNCHANGED <<seqHorarioId, secuencias, fueraDeRegistro>>

\* a query of the handler rejects: the catch block rolls back, release
telemetriaFalla(p) ==
    /\ p \in peticiones /\ p.clase = "telemetria" /\ p.pc \in {"valores", "commit"}
    /\ conexiones' = Release(Rollback(conexiones, p.con), p.con)
    /\ Termina(p, [id |-> p.id, clase |-> p.clase, con |-> p.con, status |-> 0,
                   causa |-> "error"])
    /\ UNCHANGED <<registro, registroValor, horarios, seqHorarioId, secuencias, fueraDeRegistro>>

\* POST /api/dispositivo/horarios without horario_id, activo === true: pool.connect()
horarioConnect(serial, body) ==
    /\ HayPeticion
    /\ \E c \in DOMAIN conexiones :
          /\ conexiones[c].libre
          /\ conexiones' = Conectar(conexiones, c)
          /\ peticiones' = peticiones \cup
                {[id |-> Iniciadas + 1, clase |-> "horario", serial |-> serial, body |-> body,
                  con |-> c, pc |-> "insert"]}
    /\ UNCHANGED <<registro, registroValor, horarios, seqHorarioId, secuencias, terminados,
                   fueraDeRegistro>>

\* INSERT INTO horarios ... RETURNING horario_id
horarioInsert(p) ==
    /\ p \in peticiones /\ p.clase = "horario" /\ p.pc = "insert"
    /\ \E r \in {TrasEjecutar(p.con, [op |-> "INSERT horarios",
                                      fila |-> FilaGuardada(seqHorarioId, p.serial, p.body,
                                                            p.body.activo)])} :
          /\ conexiones' = r.con
          /\ Guardar(r.tablas)
    /\ seqHorarioId' = seqHorarioId + 1
    /\ Sigue(p, [id |-> p.id, clase |-> p.clase, serial |-> p.serial, body |-> p.body,
                 con |-> p.con, pc |-> "activar", horario_id |-> seqHorarioId])
    /\ UNCHANGED <<secuencias, fueraDeRegistro>>

\* UPDATE horarios SET activo = true WHERE serial = $1, 201 with the id, release
horarioActivar(p) ==
    /\ p \in peticiones /\ p.clase = "horario" /\ p.pc = "activar"
    /\ \E r \in {TrasEjecutar(p.con, [op |-> "UPDATE horarios", serial |-> p.serial])} :
          /\ conexiones' = Release(r.con, p.con)
          /\ Guardar(r.tablas)
    /\ Termina(p, [id |-> p.id, clase |-> p.clase, con |-> p.con, status |-> 201,
                   causa |-> "guardado", horario_id |-> p.horario_id])
    /\ UNCHANGED <<seqHorarioId, secuencias, fueraDeRegistro>>

InitRegistro ==
    /\ registro = {}
    /\ horarios = {}
    /\ seqHorarioId = 1
    /\ mqttClient = TRUE
    /\ horariosInterval = <<>>
    /\ reloj = InicioIngesta
    /\ ejecuciones = {}
    /\ historial = {}
    /\ postPendientes = {}
    /\ escrituras = 0
    /\ respuesta = SinRespuesta
    /\ InitNormIdle
    /\ sesion = {[ses_id |-> 1, usuario_id |-> 1, frb_token |-> "tkA"]}
    /\ registroValor = {}
    /\ bandeja = <<>>
    /\ entregados = 0
    /\ manejadores = {}
    /\ terminados = {}
    /\ confirmados = <<>>
    /\ envios = {}
    /\ barrido = [pendiente |-> FALSE, ultimo |-> <<>>]
    /\ InitRegIdle

NextRegistro ==
    \/ \E body \in CuerposRegistro : registroConnect(body)
    \/ \E p \in peticiones : registroDispositivo(p)
    \/ \E p \in peticiones : registroInsert(p)
    \/ \E p \in peticiones : registroParametros(p)
    \/ \E p \in peticiones : registroValorInsert(p)
    \/ \E p \in peticiones : registroCommit(p)
    \/ \E p \in peticiones : registroFalla(p)
    \/ \E serie \in {"WK1", "WK2"}, texto \in TextosTelemetria : telemetriaConnect(serie, texto)
    \/ \E p \in peticiones : telemetriaDispositivo(p)
    \/ \E p \in peticiones : telemetriaActualizar(p)
    \/ \E p \in peticiones : telemetriaCommit(p)
    \/ \E p \in peticiones : telemetriaFalla(p)
    \/ \E body \in CuerposHorarioNuevo : horarioConnect("WK1", body)
    \/ \E p \in peticiones : horarioInsert(p)
    \/ \E p \in peticiones : horarioActivar(p)

SpecRegistro == InitRegistro /\ [][NextRegistro]_vars


-----------------------------------------------------------------------------
(* Vocabulary of C24 *)

\* the rows of registro_valor of registration rgt_id for parameter prt_id
FilasDeValor(tablaValores, rgt_id, prt_id) ==
    {v \in tablaValores : v.rgt_id = rgt_id /\ v.prt_id = prt_id}

\* parameter prt_id belongs to the template of device type dsp_id
EnPlantilla(dsp_id, prt_id) ==
    \E d \in dispositivoParametro : d.dsp_id = dsp_id /\ d.prt_id = prt_id

\* the rows of a table of registro_valor without their values
Claves(tablaValores) ==
    {[vlr_id |-> v.vlr_id, rgt_id |-> v.rgt_id, prt_id |-> v.prt_id] : v \in tablaValores}

\* a step in which handler p of class `clase` commits
PasoDeCommit(p, clase) ==
    /\ p \in peticiones /\ p.clase = clase
    /\ \E t \in terminados' \ terminados : t.id = p.id /\ t.causa \in {"registrado", "commit"}

-----------------------------------------------------------------------------
(* C24: in the committed tables every registration has exactly one
   registro_valor row for each parameter of the template of its device type
   and none for any other parameter, and every row belongs to a registration;
   the rows of registro_valor change their number only when a registration
   commits, which adds the rows of the new registration with the initial
   values of the template; no step removes a row, and the commit of a
   telemetry handler changes values only. *)
C24_UnaFilaPorParametro ==
    /\ [](/\ \A g \in registro :
                \A prt_id \in DOMAIN parametros :
                    Cardinality(FilasDeValor(registroValor, g.rgt_id, prt_id))
                        = IF EnPlantilla(g.dsp_id, prt_id) THEN 1 ELSE 0
          /\ \A v \in registroValor : \E g \in registro : g.rgt_id = v.rgt_id)
    /\ [][/\ Claves(registroValor) \subseteq Claves(registroValor')
          /\ Claves(registroValor') # Claves(registroValor)
                => \E p \in peticiones :
                      /\ PasoDeCommit(p, "registro")
                      /\ \A v \in registroValor' \ registroValor :
                            /\ v.rgt_id = p.rgt_id
                            /\ \E d \in dispositivoParametro :
                                  /\ d.dsp_id = p.dsp.dsp_id
                                  /\ d.prt_id = v.prt_id
                                  /\ d.valorini = v.valor
          /\ \A p \in peticiones :
                PasoDeCommit(p, "telemetria")
                => Claves(registroValor') = Claves(registroValor)]_vars

\* WK1 (both parameters) and WK2 (temp only) are registered, and a message of WK1 with temp,
\* ph and a field that is no parameter has been ingested
C24_Witness ==
    /\ \E g \in registro : g.serial = "WK1" /\ g.dsp_id = 1
    /\ \E g \in registro : g.serial = "WK2" /\ g.dsp_id = 2
    /\ Cardinality(registroValor) = 3
    /\ \E v \in registroValor : v.prt_id = 1 /\ v.valor = 22
    /\ \E v \in registroValor : v.prt_id = 2 /\ v.valor = 7
    /\ peticiones = {}

-----------------------------------------------------------------------------
(* Vocabulary of C30 *)

\* every schedule a POST /api/dispositivo/horarios was answered 201 for is committed
RespondidosGuardados ==
    \A t \in terminados :
        (t.clase = "horario" /\ t.status = 201)
        => \E h \in horarios : h.horario_id = t.horario_id

-----------------------------------------------------------------------------
(* C30: a connection that is idle in the pool has no transaction open, and
   every schedule the handler of POST /api/dispositivo/horarios has answered
   201 for is in the committed table horarios. *)
C30_SinTransaccionAbierta ==
    /\ \A c \in DOMAIN conexiones : conexiones[c].libre => ~conexiones[c].transaccion
    /\ RespondidosGuardados

=============================================================================
